---------------------------- MODULE Spec2Model ----------------------------
(***************************************************************************)
(* A model of the image pipeline of camerarts/shengtu: the edge relays     *)
(* (functions/api/generate-modelscope.ts and the Gemini relay variants),   *)
(* the prompt truncation and the dimension resolvers.                      *)
(*                                                                         *)
(* JavaScript values are records [t |-> type, v |-> payload]; a string is  *)
(* the sequence of its UTF-16 code units, a number n is <<n>> (an integer) *)
(* or <<n, d>> (n.d, one fractional digit).                                *)
(***************************************************************************)
EXTENDS Integers, Sequences, FiniteSets, TLC

VARIABLES
    relay,        \* the endpoint that serves the request of this behaviour
    pc,           \* the handler's position (the await it is suspended at)
    request,      \* the inbound request: credential header and JSON body
    env,          \* the worker's environment bindings
    now,          \* Date.now(), in ms
    startTime,    \* generate-modelscope.ts: const startTime = Date.now()
    taskId,       \* submitData.task_id
    lastSubmit,   \* the answer to the submission: [ok, status, task_id]
    imageUrl,     \* let imageUrl
    payload,      \* the body of the last request sent to the provider
    calls,        \* upstream requests issued: [submit, poll, download]
    pollLog,      \* the task_status of every answered poll, in order
    lastPoll,     \* the last answered poll: [ok, status, url]
    lastPollAt,   \* the time the last poll was issued at
    minGap,       \* the smallest time between two consecutive polls (0: none)
    downloadUrl,  \* the URL the image download was sent to
    response,     \* the HTTP response the handler returned
    dims,         \* the Gemini relay's const { width, height }
    storage,      \* env.IMAGES_BUCKET (bound or not) and env.PUBLIC_BUCKET_URL
    bucket,       \* the R2 bucket: key -> [value, puts]
    uploads,      \* the upload requests in flight: [pc, body, key, response]
    gImage,       \* splitImageToGrid: the source blob [width, height, decodable]
    gCtx,         \* whether canvas.getContext('2d') gives a context
    gPc,          \* handleSplitImage's position
    gUrls,        \* object URLs: [minted, live]
    gSettled,     \* the promise of the running split: [state, pieces]
    gRuns,        \* the pieces of every split that resolved, in order
    gView,        \* [splitImages, isSplitView, processingSplit, error]
    tStr, tMax, tResult, tPc,  \* truncateByBytes: arguments, result, position
    dVariant, dRatio, dQuality, dResult, dPc,  \* getDimensions: variant, arguments, result
    answer,       \* what generateContent answered to a synchronous relay
    history,      \* the history list (React state), newest first
    hCalls,       \* the saveToHistory and deleteHistoryItem calls made so far
    view,         \* [currentResult, uploading, loading, error] (React state)
    rendered,     \* what the handlers of the last render closed over
    flights,      \* the handler runs suspended at an await, and the ended ones
    sent,         \* the requests sent to /api/generate-* and /api/upload-image
    clicks,       \* the user's clicks on the generate and upload buttons
    nextId        \* the next reading of Date.now()

relayVars == <<relay, pc, request, env, now, startTime, taskId, imageUrl, payload,
               calls, pollLog, lastSubmit, lastPoll, lastPollAt, minGap,
               downloadUrl,
               response, dims>>
storeVars == <<storage, bucket, uploads>>
splitVars == <<gImage, gCtx, gPc, gUrls, gSettled, gRuns, gView>>
truncVars == <<tStr, tMax, tResult, tPc>>
dimVars == <<dVariant, dRatio, dQuality, dResult, dPc>>
clientVars == <<history, hCalls, view, rendered, flights, sent, clicks, nextId>>
vars == <<relay, pc, request, env, now, startTime, taskId, imageUrl, payload,
          calls, pollLog, lastSubmit, lastPoll, lastPollAt, minGap,
               downloadUrl,
          response, dims, storage, bucket, uploads,
          gImage, gCtx, gPc, gUrls, gSettled, gRuns, gView, tStr, tMax, tResult, tPc,
          dVariant, dRatio, dQuality, dResult, dPc, answer, clientVars>>

---------------------------------------------------------------------------
(* JavaScript values *)

Undef == [t |-> "undefined", v |-> <<>>]
Str(s) == [t |-> "string", v |-> s]
Num(n) == [t |-> "number", v |-> <<n>>]
Frac(n, d) == [t |-> "number", v |-> <<n, d>>]

\* ToBoolean: undefined, "" and 0 are falsy
Truthy(x) ==
    CASE x.t = "undefined" -> FALSE
      [] x.t = "string" -> x.v # <<>>
      [] x.t = "number" -> x.v # <<0>>
      [] OTHER -> TRUE

Min(a, b) == IF a <= b THEN a ELSE b

DigitChars == <<"0", "1", "2", "3", "4", "5", "6", "7", "8", "9">>

RECURSIVE Digits(_)
Digits(n) ==
    IF n < 10 THEN <<DigitChars[n + 1]>>
    ELSE Digits(n \div 10) \o <<DigitChars[(n % 10) + 1]>>

\* Number.prototype.toString / String.prototype.toString
toString(x) ==
    CASE x.t = "string" -> x.v
      [] x.t = "number" ->
            (IF x.v[1] < 0 THEN <<"-">> \o Digits(0 - x.v[1]) ELSE Digits(x.v[1]))
            \o (IF Len(x.v) = 2 THEN <<".">> \o Digits(x.v[2]) ELSE <<>>)
      [] OTHER -> <<>>

\* a header value that is a decimal integer
IsDecimalInteger(s) ==
    /\ s.t = "string"
    /\ s.v # <<>>
    /\ \A i \in 1..Len(s.v) : \E d \in 1..10 : s.v[i] = DigitChars[d]

---------------------------------------------------------------------------
(* truncateByBytes (generate-modelscope.ts).  Code units: "A" an ASCII     *)
(* character (1 byte of UTF-8), "E" a BMP character of 2 bytes, "Z" a BMP  *)
(* character of 3 bytes, "HI" and "LO" the two halves of a surrogate pair  *)
(* (4 bytes together).                                                     *)

CodeUnits == {"A", "E", "Z", "HI", "LO"}

UnitBytes(u) ==
    CASE u = "A" -> 1
      [] u = "E" -> 2
      [] u = "Z" -> 3
      [] OTHER -> 3        \* a lone surrogate is encoded as U+FFFD

\* new TextEncoder().encode(str).length
RECURSIVE EncodeLen(_)
EncodeLen(s) ==
    IF s = <<>> THEN 0
    ELSE IF Head(s) = "HI" /\ Len(s) >= 2 /\ s[2] = "LO"
         THEN 4 + EncodeLen(SubSeq(s, 3, Len(s)))
         ELSE UnitBytes(Head(s)) + EncodeLen(Tail(s))

\* str.slice(0, end), end >= 0
SliceTo(s, end) == SubSeq(s, 1, Min(end, Len(s)))

DropLastTwo(s) == SubSeq(s, 1, Len(s) - 2)

\* str.slice(0, -1)
DropLast(s) == SubSeq(s, 1, Len(s) - 1)

RECURSIVE TruncLoop(_, _)
TruncLoop(result, maxBytes) ==
    IF EncodeLen(result) > maxBytes
    THEN TruncLoop(DropLast(result), maxBytes)
    ELSE result

truncateByBytes(str, maxBytes) ==
    IF EncodeLen(str) <= maxBytes THEN str
    ELSE TruncLoop(SliceTo(str, maxBytes), maxBytes)

PROMPT_BYTES == 1200
NEGATIVE_PROMPT_BYTES == 600

\* the inputs of the truncation: strings of at most MaxChars characters, each
\* an ASCII, a 2-byte, a 3-byte or a surrogate-pair character, and budgets
MaxChars == 3
MaxBudget == 8

Characters == {<<"A">>, <<"E">>, <<"Z">>, <<"HI", "LO">>}

RECURSIVE StringsOf(_)
StringsOf(n) ==
    IF n = 0 THEN {<<>>}
    ELSE StringsOf(n - 1)
         \cup {s \o c : s \in StringsOf(n - 1), c \in Characters}

Truncate ==
    /\ tPc = "start"
    /\ tResult' = truncateByBytes(tStr, tMax)
    /\ tPc' = "done"
    /\ UNCHANGED <<tStr, tMax, relayVars, dimVars, storeVars, splitVars, answer, clientVars>>

---------------------------------------------------------------------------
(* getDimensions, in its variants.  Property lookup on an object literal   *)
(* also finds what Object.prototype provides: "constructor" is the         *)
(* function Object, whose own properties include name ("Object") and       *)
(* length (1).                                                             *)

Dim(w, h) == [t |-> "dim", v |-> <<w, h>>]
Tiers(row) == [t |-> "tiers", v |-> row]
FunctionObject == [t |-> "function", v |-> <<"Object">>]

\* the 5-ratio table (components/HistoryItem.tsx, lines 52-58)
Map5 ==
    [t |-> "map",
     v |-> [r \in {"1:1", "3:4", "4:3", "9:16", "16:9"} |->
        CASE r = "1:1" -> <<Dim(1024, 1024), Dim(2048, 2048), Dim(4096, 4096)>>
          [] r = "3:4" -> <<Dim(768, 1024), Dim(1536, 2048), Dim(3072, 4096)>>
          [] r = "4:3" -> <<Dim(1024, 768), Dim(2048, 1536), Dim(4096, 3072)>>
          [] r = "9:16" -> <<Dim(576, 1024), Dim(1152, 2048), Dim(2304, 4096)>>
          [] r = "16:9" -> <<Dim(1024, 576), Dim(2048, 1152), Dim(4096, 2304)>>]]

\* the 10-ratio table (functions/api/generate-image.ts, lines 13-44)
Map10 ==
    [t |-> "map",
     v |-> [r \in {"1:1", "2:3", "3:2", "3:4", "4:3", "4:5", "5:4", "9:16", "16:9",
                   "21:9"} |->
        CASE r = "1:1" -> <<Dim(1024, 1024), Dim(2048, 2048), Dim(4096, 4096)>>
          [] r = "2:3" -> <<Dim(680, 1024), Dim(1368, 2048), Dim(2728, 4096)>>
          [] r = "3:2" -> <<Dim(1024, 680), Dim(2048, 1368), Dim(4096, 2728)>>
          [] r = "3:4" -> <<Dim(768, 1024), Dim(1536, 2048), Dim(3072, 4096)>>
          [] r = "4:3" -> <<Dim(1024, 768), Dim(2048, 1536), Dim(4096, 3072)>>
          [] r = "4:5" -> <<Dim(816, 1024), Dim(1640, 2048), Dim(3280, 4096)>>
          [] r = "5:4" -> <<Dim(1024, 816), Dim(2048, 1640), Dim(4096, 3280)>>
          [] r = "9:16" -> <<Dim(576, 1024), Dim(1152, 2048), Dim(2304, 4096)>>
          [] r = "16:9" -> <<Dim(1024, 576), Dim(2048, 1152), Dim(4096, 2304)>>
          [] r = "21:9" -> <<Dim(1024, 440), Dim(2048, 880), Dim(4096, 1752)>>]]

\* String(key): the property name a value is converted to
PropertyKey(k) ==
    CASE k.t = "undefined" -> "undefined"
      [] k.t = "string" /\ Len(k.v) = 1 -> k.v[1]
      [] OTHER -> "(other)"

\* what Object.prototype provides to every object
Inherited(key) ==
    CASE key = "constructor" -> FunctionObject
      [] key = "toString" -> [t |-> "function", v |-> <<"toString">>]
      [] OTHER -> Undef

\* obj[key], for an obj that is not undefined
GetProp(obj, k) ==
    LET key == PropertyKey(k) IN
    CASE obj.t = "map" ->
            IF key \in DOMAIN obj.v THEN Tiers(obj.v[key]) ELSE Inherited(key)
      [] obj.t = "tiers" ->
            CASE key = "1K" -> obj.v[1]
              [] key = "2K" -> obj.v[2]
              [] key = "4K" -> obj.v[3]
              [] OTHER -> Inherited(key)
      [] obj.t = "dim" ->
            CASE key = "w" -> Num(obj.v[1])
              [] key = "h" -> Num(obj.v[2])
              [] OTHER -> Inherited(key)
      [] obj.t = "function" ->
            CASE key = "name" -> Str(obj.v)
              [] key = "length" -> Num(1)
              [] OTHER -> Inherited(key)
      [] obj.t = "string" ->
            CASE key = "length" -> Num(Len(obj.v))
              [] OTHER -> Inherited(key)
      [] OTHER -> Inherited(key)

K(name) == Str(<<name>>)

Returned(w, h) == [ok |-> TRUE, width |-> w, height |-> h, error |-> ""]
Thrown(msg) == [ok |-> FALSE, width |-> Undef, height |-> Undef, error |-> msg]

\* return { width: d.w, height: d.h }  (a property of undefined: TypeError)
ReturnDims(d) ==
    IF d.t = "undefined" THEN Thrown("TypeError")
    ELSE Returned(GetProp(d, K("w")), GetProp(d, K("h")))

getDimensionsThrowingSquare(map, aspectRatio, quality) ==
    LET ratioData == GetProp(map, K("1:1")) IN
    IF ~Truthy(ratioData) THEN Thrown("Invalid Aspect Ratio")
    ELSE LET dim == GetProp(ratioData, quality) IN
         IF ~Truthy(dim) THEN Thrown("Invalid Quality")
         ELSE ReturnDims(dim)

\* if (!ratioData) throw ...; if (!dim) throw ...
getDimensionsThrowing(map, aspectRatio, quality) ==
    LET ratioData == GetProp(map, aspectRatio) IN
    IF ~Truthy(ratioData) THEN Thrown("Invalid Aspect Ratio")
    ELSE LET dim == GetProp(ratioData, quality) IN
         IF ~Truthy(dim) THEN Thrown("Invalid Quality")
         ELSE ReturnDims(dim)

\* map[aspectRatio] || map["1:1"];  ratioData[quality] || ratioData["1K"]
getDimensionsSquareThen1K(map, aspectRatio, quality) ==
    LET found == GetProp(map, aspectRatio)
        ratioData == IF Truthy(found) THEN found ELSE GetProp(map, K("1:1"))
        tier == GetProp(ratioData, quality)
        dim == IF Truthy(tier) THEN tier ELSE GetProp(ratioData, K("1K"))
    IN ReturnDims(dim)

\* map[aspectRatio]?.[quality] || map["1:1"]["1K"]
getDimensionsSquare1KSwapped(map, aspectRatio, quality) ==
    LET ratioData == GetProp(map, aspectRatio)
        found == IF ratioData.t = "undefined" THEN Undef
                 ELSE GetProp(ratioData, quality)
        d == IF Truthy(found) THEN found
             ELSE GetProp(GetProp(map, K("1:1")), K("1K"))
    IN Returned(GetProp(d, K("h")), GetProp(d, K("w")))

getDimensionsSquare1K(map, aspectRatio, quality) ==
    LET ratioData == GetProp(map, aspectRatio)
        found == IF ratioData.t = "undefined" THEN Undef
                 ELSE GetProp(ratioData, quality)
        d == IF Truthy(found) THEN found
             ELSE GetProp(GetProp(map, K("1:1")), K("1K"))
    IN ReturnDims(d)

\* the getDimensions of each file
DimVariants ==
    {"generate-image.ts:12", "generate-image.ts:194", "types.ts:49", "part_000:16",
     "part_013:6", "utils.ts:4", "part_003:5", "HistoryItem.tsx:50", "part_004:134",
     "part_005:3"}

getDimensions(variant, aspectRatio, quality) ==
    CASE variant \in {"generate-image.ts:12", "generate-image.ts:194", "part_013:6"} ->
            getDimensionsThrowing(Map10, aspectRatio, quality)
      [] variant \in {"types.ts:49", "part_000:16"} ->
            getDimensionsThrowing(Map5, aspectRatio, quality)
      [] variant \in {"utils.ts:4", "part_003:5"} ->
            getDimensionsSquareThen1K(Map5, aspectRatio, quality)
      [] variant \in {"HistoryItem.tsx:50", "part_004:134", "part_005:3"} ->
            getDimensionsSquare1K(Map5, aspectRatio, quality)

\* the arguments tried: table members, absent pairs, inherited property names
RatioInputs ==
    {K(r) : r \in DOMAIN Map10.v} \cup {K("7:5"), K("constructor"), Undef}
QualityInputs ==
    {K("1K"), K("2K"), K("4K"), K("8K"), K("name"), K("length"), Undef}

Resolve ==
    /\ dPc = "start"
    /\ dResult' = getDimensions(dVariant, dRatio, dQuality)
    /\ dPc' = "done"
    /\ UNCHANGED <<dVariant, dRatio, dQuality, relayVars, truncVars, storeVars, splitVars, answer, clientVars>>

---------------------------------------------------------------------------
(* HTTP responses *)

NoResponse ==
    [status |-> 0, kind |-> "none", body |-> <<>>, code |-> "", message |-> <<>>,
     details |-> <<>>, contentType |-> "", xw |-> Undef, xh |-> Undef,
     width |-> Undef, height |-> Undef]

\* new Response(JSON.stringify({ error: {code, message, details} }), { status })
\* (code "" and details <<>>: the member is absent)
ErrorResponse(status, code, message, details) ==
    [status |-> status, kind |-> "json", body |-> <<"error">>, code |-> code,
     message |-> message, details |-> details, contentType |-> "",
     xw |-> Undef, xh |-> Undef, width |-> Undef, height |-> Undef]

\* new Response(buffer, { headers: { 'Content-Type', 'X-Image-Width', 'X-Image-Height' } })
BinaryResponse(bytes, contentType, w, h) ==
    [status |-> 200, kind |-> "binary", body |-> bytes, code |-> "",
     message |-> <<>>, details |-> <<>>, contentType |-> contentType,
     xw |-> Str(w), xh |-> Str(h), width |-> Undef, height |-> Undef]

\* new Response(JSON.stringify({ contentType: "image/png", base64, width, height }),
\*              { headers: { 'Content-Type': 'application/json' } })
JsonImageResponse(base64, w, h) ==
    [status |-> 200, kind |-> "json", body |-> <<"base64">> \o base64, code |-> "",
     message |-> <<>>, details |-> <<>>, contentType |-> "application/json",
     xw |-> Undef, xh |-> Undef, width |-> w, height |-> h]

NoCalls == [submit |-> 0, poll |-> 0, download |-> 0, generate |-> 0]
NoSubmit == [ok |-> FALSE, status |-> 0, task_id |-> Undef]
NoPoll == [ok |-> FALSE, status |-> "", url |-> Undef]
NoPayload == [kind |-> "none"]
NoDims == [width |-> Undef, height |-> Undef]

---------------------------------------------------------------------------
(* The asynchronous relay: functions/api/generate-modelscope.ts *)

TIMEOUT == 45000
POLL_INTERVAL == 1000

\* how long an upstream call takes, and how late a timer may fire (ms)
Latencies == {0, 1000}
TimerLags == {0, 1000}

\* the bytes the provider serves at a URL
ImageAt(url) == <<"image at", url>>

\* the request: the x-modelscope-key header and the members of the JSON body
MsReq(key, prompt, negative_prompt, width, height) ==
    [key |-> key, prompt |-> prompt, negative_prompt |-> negative_prompt,
     width |-> width, height |-> height]

ModelScopeRequests ==
    {MsReq(Undef, Str(<<"A">>), Undef, Num(768), Num(1024)),
     MsReq(Str(<<"k">>), Undef, Undef, Num(768), Num(1024)),
     MsReq(Str(<<"k">>), Str(<<>>), Undef, Num(768), Num(1024)),
     MsReq(Str(<<"k">>), Str(<<"A", "Z">>), Undef, Undef, Undef),
     MsReq(Str(<<"k">>), Str(<<"A", "Z">>), Str(<<"E">>), Num(768), Num(1024)),
     MsReq(Str(<<"k">>), Str(<<"HI", "LO">>), Undef, Str(<<"w", "i", "d", "e">>), Frac(1, 5))}

SubmitResponses ==
    {[ok |-> FALSE, status |-> 400, task_id |-> Undef],
     [ok |-> FALSE, status |-> 500, task_id |-> Str(<<"t1">>)]}
    \cup [ok : {TRUE}, status : {200}, task_id : {Undef, Str(<<"t1">>)}]

PollResponses ==
    {NoPoll}
    \cup [ok : {TRUE}, status : {"PENDING"}, url : {Undef}]
    \cup [ok : {TRUE}, status : {"FAILED"}, url : {Undef, Str(<<"u1">>)}]
    \cup [ok : {TRUE}, status : {"SUCCEED"},
          url : {Undef, Str(<<>>), Str(<<"u1">>), Str(<<"u2">>)}]

\* JSON.stringify(checkData)
StringifyCheckData(res) ==
    <<"task_status", res.status, "output_images">> \o res.url.v

\* catch (err) { return new Response(JSON.stringify({ error: { message: err.message } }), { status: 500 }) }
ModelScopeCatch(message) == ErrorResponse(500, "", message, <<>>)

\* if (Date.now() - startTime > TIMEOUT)
TimedOutNever(t, start) == FALSE

TimedOutAtBudget(t, start) == t - start >= TIMEOUT

TimedOutOffByFactor(t, start) == t - start > TIMEOUT + TIMEOUT

TimedOut(t, start) == t - start > TIMEOUT

\* if (!submitRes.ok)
SubmitFailedNever(res) == FALSE

SubmitFailed(res) == ~res.ok

\* if (!checkRes.ok)
PollFailedNever(res) == FALSE

PollFailed(res) == ~res.ok

\* if (!imageUrl)
NoImageUrlOnlyUndefined(url) == url.t = "undefined"

NoImageUrl(url) == ~Truthy(url)

\* if (!taskId)
NoTaskIdNeverChecked(id) == FALSE

NoTaskId(id) == ~Truthy(id)

\* if (status === "SUCCEED") / else if (status === "FAILED")
IsSucceed(status) == status = "SUCCEED"

IsFailedNever(status) == FALSE

IsFailed(status) == status = "FAILED"

\* setTimeout(r, 1000): the timer fires POLL_INTERVAL ms later, or later still
TimerDelayNoWait(lag) == lag

TimerDelay(lag) == POLL_INTERVAL + lag

\* the polls one invocation may issue in the model (the loop ends well below it)
MaxPolls == 50

\* width?.toString() || "1024"
HeaderOr1024(x) ==
    IF x.t = "undefined" \/ toString(x) = <<>> THEN <<"1", "0", "2", "4">>
    ELSE toString(x)

Finish(resp) ==
    /\ response' = resp
    /\ pc' = "done"

\* lines 48-92: credential, body, validation, truncation, submission
ModelScope_Receive ==
    /\ relay = "modelscope" /\ pc = "start"
    /\ IF ~Truthy(request.key)
       THEN /\ Finish(ModelScopeCatch(<<"Missing ModelScope API Key">>))
            /\ UNCHANGED <<payload, calls>>
       ELSE IF ~Truthy(request.prompt)
       THEN /\ Finish(ModelScopeCatch(<<"Prompt is required">>))
            /\ UNCHANGED <<payload, calls>>
       ELSE /\ payload' =
                 [kind |-> "modelscope",
                  prompt |-> Str(truncateByBytes(request.prompt.v, PROMPT_BYTES)),
                  negative_prompt |->
                      IF Truthy(request.negative_prompt)
                      THEN Str(truncateByBytes(request.negative_prompt.v,
                                               NEGATIVE_PROMPT_BYTES))
                      ELSE Undef,
                  width |-> request.width, height |-> request.height]
            /\ calls' = [calls EXCEPT !.submit = @ + 1]
            /\ pc' = "awaitSubmit"
            /\ UNCHANGED response
    /\ UNCHANGED <<relay, request, env, now, startTime, taskId, imageUrl, pollLog,
                   lastSubmit, lastPoll, lastPollAt, minGap, downloadUrl, dims,
                   truncVars, dimVars, storeVars, splitVars, answer, clientVars>>

\* lines 94-108: the submission's answer, the task id, the start of polling
ModelScope_SubmitResponds ==
    /\ relay = "modelscope" /\ pc = "awaitSubmit"
    /\ \E d \in Latencies, res \in SubmitResponses :
         /\ now' = now + d
         /\ lastSubmit' = res
         /\ IF SubmitFailed(res)
            THEN /\ Finish(ModelScopeCatch(<<"ModelScope Submit Failed: ">>
                                           \o Digits(res.status)))
                 /\ UNCHANGED <<taskId, startTime>>
            ELSE IF NoTaskId(res.task_id)
            THEN /\ Finish(ModelScopeCatch(<<"No task_id received from ModelScope">>))
                 /\ UNCHANGED <<taskId, startTime>>
            ELSE /\ taskId' = res.task_id
                 /\ startTime' = now'
                 /\ pc' = "pollCheck"
                 /\ UNCHANGED response
    /\ UNCHANGED <<relay, request, env, imageUrl, payload, calls, pollLog, lastPoll,
                   lastPollAt, minGap, downloadUrl, dims, truncVars, dimVars, storeVars, splitVars, answer, clientVars>>

\* lines 110-119: the loop's timeout check, then the status request
ModelScope_PollIssue ==
    /\ relay = "modelscope" /\ pc = "pollCheck"
    /\ IF TimedOut(now, startTime)
       THEN /\ Finish(ModelScopeCatch(<<"Generation timed out">>))
            /\ UNCHANGED <<calls, lastPollAt, minGap>>
       ELSE /\ calls.poll < MaxPolls
            /\ calls' = [calls EXCEPT !.poll = @ + 1]
            /\ lastPollAt' = now
            /\ minGap' = IF calls.poll = 0 THEN 0
                         ELSE IF minGap = 0 THEN now - lastPollAt
                         ELSE Min(minGap, now - lastPollAt)
            /\ pc' = "awaitPoll"
            /\ UNCHANGED response
    /\ UNCHANGED <<relay, request, env, now, startTime, taskId, imageUrl, payload,
                   pollLog, lastSubmit, lastPoll, downloadUrl, dims, truncVars,
                   dimVars, storeVars, splitVars, answer, clientVars>>

\* lines 121-140: the status answer; on SUCCEED the loop ends and the image
\* is requested from the URL of that answer
ModelScope_PollResponds ==
    /\ relay = "modelscope" /\ pc = "awaitPoll"
    /\ \E d \in Latencies, res \in PollResponses :
         /\ now' = now + d
         /\ lastPoll' = res
         /\ pollLog' = Append(pollLog, IF res.ok THEN res.status ELSE "HTTP_ERROR")
         /\ IF PollFailed(res)
            THEN /\ Finish(ModelScopeCatch(<<"Polling failed">>))
                 /\ UNCHANGED <<imageUrl, calls, downloadUrl>>
            ELSE IF IsSucceed(res.status)
            THEN /\ imageUrl' = res.url
                 /\ IF NoImageUrl(res.url)
                    THEN /\ Finish(ModelScopeCatch(<<"No image URL in success response">>))
                         /\ UNCHANGED <<calls, downloadUrl>>
                    ELSE /\ calls' = [calls EXCEPT !.download = @ + 1]
                         /\ downloadUrl' = res.url
                         /\ pc' = "awaitDownload"
                         /\ UNCHANGED response
            ELSE IF IsFailed(res.status)
            THEN /\ Finish(ModelScopeCatch(<<"Generation failed: ">>
                                           \o StringifyCheckData(res)))
                 /\ UNCHANGED <<imageUrl, calls, downloadUrl>>
            ELSE /\ pc' = "sleeping"
                 /\ UNCHANGED <<imageUrl, calls, downloadUrl, response>>
    /\ UNCHANGED <<relay, request, env, startTime, taskId, payload, lastSubmit, lastPollAt,
                   minGap, dims, truncVars, dimVars, storeVars, splitVars, answer, clientVars>>

\* line 134: await new Promise(r => setTimeout(r, 1000))
ModelScope_TimerFires ==
    /\ relay = "modelscope" /\ pc = "sleeping"
    /\ \E lag \in TimerLags : now' = now + TimerDelay(lag)
    /\ pc' = "pollCheck"
    /\ UNCHANGED <<relay, request, env, startTime, taskId, imageUrl, payload, calls,
                   pollLog, lastSubmit, lastPoll, lastPollAt, minGap, downloadUrl, response,
                   dims, truncVars, dimVars, storeVars, splitVars, answer, clientVars>>

\* lines 140-153: the download's answer and the binary response
ModelScope_DownloadResponds ==
    /\ relay = "modelscope" /\ pc = "awaitDownload"
    /\ \E d \in Latencies, ok \in BOOLEAN :
         /\ now' = now + d
         /\ IF ~ok
            THEN Finish(ModelScopeCatch(
                     <<"Failed to download generated image from ModelScope">>))
            ELSE Finish(BinaryResponse(ImageAt(downloadUrl), "image/jpeg",
                                       HeaderOr1024(request.width),
                                       HeaderOr1024(request.height)))
    /\ UNCHANGED <<relay, request, env, startTime, taskId, imageUrl, payload, calls,
                   pollLog, lastSubmit, lastPoll, lastPollAt, minGap, downloadUrl, dims,
                   truncVars, dimVars, storeVars, splitVars, answer, clientVars>>

NextModelScope ==
    \/ ModelScope_Receive
    \/ ModelScope_SubmitResponds
    \/ ModelScope_PollIssue
    \/ ModelScope_PollResponds
    \/ ModelScope_TimerFires
    \/ ModelScope_DownloadResponds

NoPromise == [state |-> "none", pieces |-> <<>>]
NoView == [splitImages |-> <<>>, isSplitView |-> FALSE, processingSplit |-> FALSE,
           error |-> ""]

\* no answer yet
NoAnswer == [ok |-> FALSE, status |-> 0, hasParts |-> FALSE, parts |-> <<>>]

IdleSplit ==
    /\ gImage = [width |-> 0, height |-> 0, decodable |-> FALSE]
    /\ gCtx = FALSE
    /\ gPc = "none"
    /\ gUrls = [minted |-> 0, live |-> {}]
    /\ gSettled = NoPromise
    /\ gRuns = <<>>
    /\ gView = NoView

\* useState(null), useState(false), useState(false), useState(null)
NoResult == [blob |-> 0, localUrl |-> <<>>, cloudUrl |-> <<>>, width |-> 0,
             height |-> 0, historyId |-> 0]
InitialView == [currentResult |-> NoResult, uploading |-> FALSE, loading |-> FALSE,
                error |-> <<>>]

IdleClient ==
    /\ history = <<>>
    /\ hCalls = <<>>
    /\ view = InitialView
    /\ rendered = [currentResult |-> NoResult, uploading |-> FALSE, loading |-> FALSE,
                   history |-> <<>>]
    /\ flights = <<>>
    /\ sent = [generate |-> 0, upload |-> 0]
    /\ clicks = [generate |-> 0, upload |-> 0]
    /\ nextId = 0

IdleStore ==
    /\ storage = [IMAGES_BUCKET |-> FALSE, PUBLIC_BUCKET_URL |-> Undef]
    /\ bucket = <<>>
    /\ uploads = <<>>

IdleTrunc ==
    /\ tStr = <<>> /\ tMax = 0 /\ tResult = <<>> /\ tPc = "idle"

IdleDims ==
    /\ dVariant = "" /\ dRatio = Undef /\ dQuality = Undef
    /\ dResult = Thrown("") /\ dPc = "idle"

InitRelayState ==
    /\ pc = "start"
    /\ now = 0 /\ startTime = 0
    /\ taskId = Undef
    /\ imageUrl = Str(<<>>)
    /\ payload = NoPayload
    /\ calls = NoCalls
    /\ pollLog = <<>>
    /\ lastSubmit = NoSubmit
    /\ lastPoll = NoPoll
    /\ lastPollAt = 0 /\ minGap = 0
    /\ downloadUrl = Undef
    /\ response = NoResponse
    /\ dims = NoDims
    /\ answer = NoAnswer

IdleRelay ==
    /\ relay = "none"
    /\ request = <<>>
    /\ env = [GEMINI_API_KEY |-> Undef]
    /\ InitRelayState

InitModelScope ==
    /\ relay = "modelscope"
    /\ request \in ModelScopeRequests
    /\ env = [GEMINI_API_KEY |-> Undef]
    /\ InitRelayState
    /\ IdleTrunc
    /\ IdleDims
    /\ IdleStore
    /\ IdleSplit
    /\ IdleClient

SpecModelScope == InitModelScope /\ [][NextModelScope]_vars

---------------------------------------------------------------------------
(* The uploader: onRequestPost of unnamed/part_002 (lines 384-427).  Several *)
(* requests are served at once; each is suspended at its await of put.       *)

MaxUploads == 2
MaxClock == 1

\* crypto.randomUUID().slice(0, 8): one of the 16^8 prefixes
Uuids == {"0a1b2c3d", "9f8e7d6c"}

\* request.arrayBuffer()
Bodies == {<<>>, <<65>>, <<66, 67>>}

StorageConfigs ==
    [IMAGES_BUCKET : BOOLEAN,
     PUBLIC_BUCKET_URL : {Undef, Str(<<>>), Str(<<"https://cdn.example">>),
                          Str(<<"https://cdn.example", "/">>)}]

NoUploadResponse == [status |-> 0, kind |-> "none", message |-> <<>>, url |-> <<>>]

\* new Response(JSON.stringify({ url: imageUrl }))
UploadedResponse(url) == [status |-> 200, kind |-> "json", message |-> <<>>, url |-> url]

\* catch (err) { new Response(JSON.stringify({ error: { message } }), { status: 500 }) }
UploadCatch(message) ==
    [status |-> 500, kind |-> "json", message |-> message, url |-> <<>>]

\* !env.IMAGES_BUCKET || !env.PUBLIC_BUCKET_URL
ConfigMissingBucketOnly(st) == ~st.IMAGES_BUCKET

ConfigMissing(st) == ~st.IMAGES_BUCKET \/ ~Truthy(st.PUBLIC_BUCKET_URL)

\* !arrayBuffer || arrayBuffer.byteLength === 0
EmptyBodyNever(body) == FALSE

EmptyBody(body) == Len(body) = 0

\* `gemini-${Date.now()}-${crypto.randomUUID().slice(0, 8)}.png`
Filename(t, uuid) == <<"gemini-">> \o Digits(t) \o <<"-", uuid, ".png">>

\* env.PUBLIC_BUCKET_URL.replace(/\/$/, "")
StripTrailingSlash(u) ==
    IF Len(u) > 0 /\ u[Len(u)] = "/" THEN SubSeq(u, 1, Len(u) - 1) ELSE u

\* env.IMAGES_BUCKET.put(key, value): the object at key is created or replaced
Put(b, key, value) ==
    [k \in DOMAIN b \cup {key} |->
        IF k = key
        THEN [value |-> value, puts |-> IF key \in DOMAIN b THEN b[key].puts + 1 ELSE 1]
        ELSE b[k]]

\* lines 395-409: configuration, body, key, and the put is sent
Uploader_Receive ==
    /\ \E i \in DOMAIN uploads, body \in Bodies, uuid \in Uuids :
         /\ uploads[i].pc = "start"
         /\ uploads' =
              [uploads EXCEPT ![i] =
                 IF ConfigMissing(storage)
                 THEN [@ EXCEPT !.pc = "done", !.body = body,
                         !.response = UploadCatch(<<"Server R2 configuration missing.">>)]
                 ELSE IF EmptyBody(body)
                 THEN [@ EXCEPT !.pc = "done", !.body = body,
                         !.response = UploadCatch(<<"Empty upload body.">>)]
                 ELSE [@ EXCEPT !.pc = "awaitPut", !.body = body,
                         !.key = Filename(now, uuid)]]
    /\ UNCHANGED <<storage, bucket, now>>
    /\ UNCHANGED <<relay, pc, request, env, startTime, taskId, imageUrl, payload,
                   calls, pollLog, lastSubmit, lastPoll, lastPollAt, minGap,
                   downloadUrl, response, dims, truncVars, dimVars, splitVars, answer, clientVars>>

\* lines 409-423: the put resolves (or rejects) and the URL is answered
Uploader_PutSettles ==
    /\ \E i \in DOMAIN uploads, stored \in BOOLEAN :
         /\ uploads[i].pc = "awaitPut"
         /\ IF stored
            THEN /\ bucket' = Put(bucket, uploads[i].key, uploads[i].body)
                 /\ uploads' =
                      [uploads EXCEPT ![i] =
                         [@ EXCEPT !.pc = "done",
                                   !.response = UploadedResponse(
                                       StripTrailingSlash(storage.PUBLIC_BUCKET_URL.v)
                                       \o <<"/">> \o uploads[i].key)]]
            ELSE /\ bucket' = bucket
                 /\ uploads' =
                      [uploads EXCEPT ![i] =
                         [@ EXCEPT !.pc = "done",
                                   !.response = UploadCatch(<<"put rejected">>)]]
    /\ UNCHANGED <<storage, now>>
    /\ UNCHANGED <<relay, pc, request, env, startTime, taskId, imageUrl, payload,
                   calls, pollLog, lastSubmit, lastPoll, lastPollAt, minGap,
                   downloadUrl, response, dims, truncVars, dimVars, splitVars, answer, clientVars>>

\* a millisecond passes
Uploader_Tick ==
    /\ now < MaxClock
    /\ now' = now + 1
    /\ UNCHANGED <<storage, bucket, uploads>>
    /\ UNCHANGED <<relay, pc, request, env, startTime, taskId, imageUrl, payload,
                   calls, pollLog, lastSubmit, lastPoll, lastPollAt, minGap,
                   downloadUrl, response, dims, truncVars, dimVars, splitVars, answer, clientVars>>

NextUploader ==
    \/ Uploader_Receive
    \/ Uploader_PutSettles
    \/ Uploader_Tick

InitUploader ==
    /\ storage \in StorageConfigs
    /\ bucket = <<>>
    /\ uploads = [i \in 1..MaxUploads |->
                    [pc |-> "start", body |-> <<>>, key |-> <<>>,
                     response |-> NoUploadResponse]]
    /\ IdleRelay
    /\ IdleTrunc
    /\ IdleDims
    /\ IdleSplit
    /\ IdleClient

SpecUploader == InitUploader /\ [][NextUploader]_vars

---------------------------------------------------------------------------
(* The synchronous relays: onRequestPost of functions/api/generate-image.ts *)
(* (JSON envelope, 10 ratios), of types.ts (JSON envelope, 5 ratios) and of *)
(* components/HistoryItem.tsx (binary body, dimensions in headers).         *)

MAX_PROMPT_LENGTH == 2000

GeminiRelays == {"generate-image.ts", "types.ts", "HistoryItem.tsx", "part_000"}

GeminiReq(key, prompt, negativePrompt, aspectRatio, quality, reference) ==
    [key |-> key, prompt |-> prompt, negativePrompt |-> negativePrompt,
     aspectRatio |-> aspectRatio, quality |-> quality,
     referenceImageBase64 |-> reference]

\* a prompt of n characters
PromptOfLength(n) == Str([i \in 1..n |-> "A"])

DataUri == Str(<<"data:image/png;base64,", "QQ==">>)

GeminiRequests ==
    {GeminiReq(k, p, x[1], r, q, x[2]) :
        k \in {Undef, Str(<<"k">>)},
        p \in {Undef, Str(<<>>), Str(<<"A">>), Num(5),
               PromptOfLength(MAX_PROMPT_LENGTH), PromptOfLength(MAX_PROMPT_LENGTH + 1)},
        x \in {<<Undef, Undef>>, <<Str(<<"E">>), DataUri>>, <<Undef, Str(<<"QQ==">>)>>},
        r \in {K("1:1"), K("9:16"), K("2:3"), K("7:5"), K("constructor"), Undef},
        q \in {K("1K"), K("2K"), K("8K"), K("name"), Undef}}

\* a part of the provider's answer: a text part, or one with inlineData
TextPart == [inlineData |-> Undef]
InlinePart(data) == [inlineData |-> [t |-> "object", v |-> <<data>>]]

PartKinds ==
    {TextPart, InlinePart(Str(<<"QQ==">>)), InlinePart(Str(<<"QkM=">>)),
     InlinePart(Undef), InlinePart(Str(<<"*">>))}

\* the provider's answer: a status, and for 200 the parts of candidates[0]
\* (hasParts FALSE: no candidates)
GeminiAnswers ==
    [ok : {FALSE}, status : {400, 429, 503}, hasParts : {FALSE}, parts : {<<>>}]
    \cup [ok : {TRUE}, status : {200}, hasParts : {FALSE}, parts : {<<>>}]
    \cup [ok : {TRUE}, status : {200}, hasParts : {TRUE},
          parts : {<<>>} \cup {<<a>> : a \in PartKinds}
                  \cup {<<a, b>> : a \in PartKinds, b \in PartKinds}]

\* `${x}`
TemplateString(x) == IF x.t = "undefined" THEN <<"undefined">> ELSE toString(x)

\* negativePrompt ? `${prompt} --no ${negativePrompt}` : prompt
FinalPrompt(prompt, negativePrompt) ==
    IF Truthy(negativePrompt)
    THEN Str(TemplateString(prompt) \o <<" --no ">> \o TemplateString(negativePrompt))
    ELSE prompt

\* referenceImageBase64.match(/^data:(image\/[a-zA-Z]+);base64,(.+)$/)
MatchesDataUri(ref) ==
    ref.t = "string" /\ Len(ref.v) = 2 /\ ref.v[1] = "data:image/png;base64,"

\* const parts = [{ text: finalPrompt }]; if (match) parts.push({ inlineData })
RequestParts(req) ==
    <<[text |-> FinalPrompt(req.prompt, req.negativePrompt)]>>
    \o (IF Truthy(req.referenceImageBase64) /\ MatchesDataUri(req.referenceImageBase64)
        THEN <<[inlineData |-> req.referenceImageBase64.v[2]]>>
        ELSE <<>>)

\* validRatios.includes(aspectRatio), ["1K", "2K", "4K"].includes(quality)
Includes(list, x) == x.t = "string" /\ Len(x.v) = 1 /\ x.v[1] \in list

\* !prompt || typeof prompt !== 'string' || prompt.length > 2000
PromptRejected(prompt) ==
    \/ ~Truthy(prompt)
    \/ prompt.t # "string"
    \/ Len(prompt.v) > MAX_PROMPT_LENGTH

\* parts?.find((p) => p.inlineData): the index of the first such part, or 0
RECURSIVE FindInline(_, _)
FindInline(parts, i) ==
    IF i > Len(parts) THEN 0
    ELSE IF Truthy(parts[i].inlineData) THEN i
    ELSE FindInline(parts, i + 1)

FirstPartOnly(parts, i) == IF Len(parts) >= 1 THEN 1 ELSE 0

\* the base64 data of part i, or undefined: part?.inlineData?.data
InlineData(ans, i) ==
    IF ~ans.hasParts \/ i = 0 THEN Undef
    ELSE IF ans.parts[i].inlineData.t = "undefined" THEN Undef
    ELSE ans.parts[i].inlineData.v[1]

\* atob: the bytes of a base64 string; it throws for one that is not base64
atob(b64) ==
    CASE b64 = <<"QQ==">> -> [ok |-> TRUE, bytes |-> <<65>>]
      [] b64 = <<"QkM=">> -> [ok |-> TRUE, bytes |-> <<66, 67>>]
      [] OTHER -> [ok |-> FALSE, bytes |-> <<>>]

\* catch (err) of generate-image.ts and types.ts
GeminiCatch(message) == ErrorResponse(500, "INTERNAL_ERROR", message, <<>>)

\* catch (err) of HistoryItem.tsx
BinaryRelayCatch(message) == ErrorResponse(500, "", message, <<>>)

\* generate-image.ts lines 141-150
UpstreamErrorCode(status) ==
    CASE status = 429 -> "RATE_LIMITED"
      [] status = 400 -> "INVALID_INPUT"
      [] OTHER -> "UPSTREAM_ERROR"

SendGenerate(req, d, apiKey) ==
    /\ dims' = [width |-> d.width, height |-> d.height]
    /\ payload' = [kind |-> "gemini", key |-> apiKey, parts |-> RequestParts(req),
                   aspectRatio |-> req.aspectRatio, imageSize |-> req.quality,
                   width |-> d.width, height |-> d.height]
    /\ calls' = [calls EXCEPT !.generate = @ + 1]
    /\ pc' = "awaitGenerate"
    /\ UNCHANGED response

Reject(resp) ==
    /\ Finish(resp)
    /\ UNCHANGED <<dims, payload, calls>>

GeminiFrame ==
    UNCHANGED <<relay, request, env, now, startTime, taskId, imageUrl, pollLog,
                lastSubmit, lastPoll, lastPollAt, minGap, downloadUrl, truncVars,
                dimVars, storeVars, splitVars, clientVars>>

\* the validating relays: generate-image.ts lines 67-136, types.ts lines 89-146
ValidatingReceive(ratios, variant) ==
       IF ~Truthy(env.GEMINI_API_KEY)
       THEN Reject(GeminiCatch(<<"server configuration: no API key">>))
       ELSE IF PromptRejected(request.prompt)
       THEN Reject(ErrorResponse(400, "INVALID_INPUT", <<"prompt">>, <<>>))
       ELSE IF ~Includes(ratios, request.aspectRatio)
       THEN Reject(ErrorResponse(400, "INVALID_INPUT", <<"aspect ratio">>, <<>>))
       ELSE IF ~Includes({"1K", "2K", "4K"}, request.quality)
       THEN Reject(ErrorResponse(400, "INVALID_INPUT", <<"quality">>, <<>>))
       ELSE LET d == getDimensions(variant, request.aspectRatio, request.quality) IN
            IF ~d.ok THEN Reject(GeminiCatch(<<d.error>>))
            ELSE SendGenerate([request EXCEPT !.referenceImageBase64 = Undef], d,
                              env.GEMINI_API_KEY)

\* const validRatios = [...]
ValidRatios10 ==
    {"1:1", "2:3", "3:2", "3:4", "4:3", "4:5", "5:4", "9:16", "16:9", "21:9"}

ValidRatios5 == {"1:1", "3:4", "4:3", "9:16", "16:9"}

GenerateImageTs_Receive ==
    /\ relay = "generate-image.ts" /\ pc = "start"
    /\ ValidatingReceive(ValidRatios10, "generate-image.ts:12")
    /\ UNCHANGED answer
    /\ GeminiFrame

TypesTs_Receive ==
    /\ relay = "types.ts" /\ pc = "start"
    /\ ValidatingReceive(ValidRatios5, "types.ts:49")
    /\ UNCHANGED answer
    /\ GeminiFrame

\* generate-image.ts lines 138-181
GenerateImageTs_Responds ==
    /\ relay = "generate-image.ts" /\ pc = "awaitGenerate"
    /\ \E ans \in GeminiAnswers :
         /\ answer' = ans
         /\ IF ~ans.ok
            THEN Finish(ErrorResponse(ans.status, UpstreamErrorCode(ans.status),
                                      <<"Gemini API">>, <<"errorText">>))
            ELSE LET data == InlineData(ans, FirstPartOnly(ans.parts, 1)) IN
                 IF ~Truthy(data)
                 THEN Finish(ErrorResponse(500, "INTERNAL_ERROR", <<"no image data">>, <<>>))
                 ELSE Finish(JsonImageResponse(data.v, dims.width, dims.height))
    /\ UNCHANGED <<dims, payload, calls>>
    /\ GeminiFrame

\* types.ts lines 148-173
TypesTs_Responds ==
    /\ relay = "types.ts" /\ pc = "awaitGenerate"
    /\ \E ans \in GeminiAnswers :
         /\ answer' = ans
         /\ IF ~ans.ok
            THEN Finish(ErrorResponse(ans.status, "API_ERROR",
                                      <<"Gemini API Error: ">> \o Digits(ans.status),
                                      <<"errorText">>))
            ELSE LET data == InlineData(ans, FindInline(ans.parts, 1)) IN
                 IF ~Truthy(data)
                 THEN Finish(ErrorResponse(500, "INTERNAL_ERROR", <<"no image data">>, <<>>))
                 ELSE Finish(JsonImageResponse(data.v, dims.width, dims.height))
    /\ UNCHANGED <<dims, payload, calls>>
    /\ GeminiFrame

\* request.headers.get("x-goog-api-key") || env.GEMINI_API_KEY
ApiKey(req, e) == IF Truthy(req.key) THEN req.key ELSE e.GEMINI_API_KEY

\* HistoryItem.tsx lines 84-119
HistoryItemTsx_Receive ==
    /\ relay = "HistoryItem.tsx" /\ pc = "start"
    /\ IF ~Truthy(ApiKey(request, env))
       THEN Reject(BinaryRelayCatch(<<"Missing API Key">>))
       ELSE LET d == getDimensions("HistoryItem.tsx:50", request.aspectRatio,
                                   request.quality) IN
            IF ~d.ok THEN Reject(BinaryRelayCatch(<<d.error>>))
            ELSE SendGenerate(request, d, ApiKey(request, env))
    /\ UNCHANGED answer
    /\ GeminiFrame

\* HistoryItem.tsx lines 121-149
HistoryItemTsx_Responds ==
    /\ relay = "HistoryItem.tsx" /\ pc = "awaitGenerate"
    /\ \E ans \in GeminiAnswers :
         /\ answer' = ans
         /\ IF ~ans.ok
            THEN Finish(ErrorResponse(ans.status, "",
                                      <<"Gemini API Error: ">> \o Digits(ans.status),
                                      <<"err">>))
            ELSE LET data == InlineData(ans, FindInline(ans.parts, 1)) IN
                 IF ~Truthy(data)
                 THEN Finish(ErrorResponse(500, "", <<"No image data returned.">>, <<>>))
                 ELSE IF ~atob(data.v).ok
                 THEN Finish(BinaryRelayCatch(<<"InvalidCharacterError">>))
                 ELSE IF dims.width.t = "undefined" \/ dims.height.t = "undefined"
                 THEN Finish(BinaryRelayCatch(<<"TypeError">>))
                 ELSE Finish(BinaryResponse(atob(data.v).bytes, "image/png",
                                            toString(dims.width), toString(dims.height)))
    /\ UNCHANGED <<dims, payload, calls>>
    /\ GeminiFrame

\* part_000 lines 163-178: { contentType, url, width, height } and, when there
\* is no URL, base64
Part000Response(url, base64, w, h) ==
    [status |-> 200, kind |-> "json",
     body |-> IF url = <<>> THEN <<"url", "null", "base64">> \o base64
              ELSE <<"url">> \o url,
     code |-> "", message |-> <<>>, details |-> <<>>,
     contentType |-> "application/json",
     xw |-> Undef, xh |-> Undef, width |-> w, height |-> h]

Part000Frame ==
    UNCHANGED <<relay, request, env, now, startTime, taskId, imageUrl, pollLog,
                lastSubmit, lastPoll, lastPollAt, minGap, downloadUrl, dims, payload,
                calls, storage, truncVars, dimVars, splitVars, clientVars>>

\* part_000 lines 66-117
Part000_Receive ==
    /\ relay = "part_000" /\ pc = "start"
    /\ IF ~Truthy(ApiKey(request, env))
       THEN Reject(GeminiCatch(<<"missing API Key">>))
       ELSE IF ~Truthy(request.prompt) \/ request.prompt.t # "string"
       THEN Reject(ErrorResponse(400, "INVALID_INPUT", <<"prompt">>, <<>>))
       ELSE LET d == getDimensions("part_000:16", request.aspectRatio,
                                   request.quality) IN
            IF ~d.ok THEN Reject(GeminiCatch(<<d.error>>))
            ELSE SendGenerate(request, d, ApiKey(request, env))
    /\ UNCHANGED answer
    /\ GeminiFrame

\* part_000 lines 119-149: the provider's answer, and the put when the bucket
\* is configured
Part000_Responds ==
    /\ relay = "part_000" /\ pc = "awaitGenerate"
    /\ \E ans \in GeminiAnswers, uuid \in Uuids :
         /\ answer' = ans
         /\ IF ~ans.ok
            THEN /\ Finish(ErrorResponse(ans.status, "API_ERROR",
                                         <<"Gemini API Error: ">> \o Digits(ans.status),
                                         <<"errorText">>))
                 /\ UNCHANGED <<bucket, uploads>>
            ELSE LET data == InlineData(ans, FindInline(ans.parts, 1)) IN
                 IF ~Truthy(data)
                 THEN /\ Finish(ErrorResponse(500, "INTERNAL_ERROR", <<"no image data">>,
                                              <<>>))
                      /\ UNCHANGED <<bucket, uploads>>
                 ELSE IF ConfigMissing(storage) \/ ~atob(data.v).ok
                 THEN /\ Finish(Part000Response(<<>>, data.v, dims.width, dims.height))
                      /\ UNCHANGED <<bucket, uploads>>
                 ELSE /\ uploads' = <<[pc |-> "awaitPut", body |-> atob(data.v).bytes,
                                       key |-> Filename(now, uuid), base64 |-> data.v]>>
                      /\ pc' = "awaitPut"
                      /\ UNCHANGED <<bucket, response>>
    /\ Part000Frame

\* part_000 lines 147-178: the put resolves, or rejects and the base64 is sent
Part000_PutSettles ==
    /\ relay = "part_000" /\ pc = "awaitPut"
    /\ \E stored \in BOOLEAN :
         IF stored
         THEN /\ bucket' = Put(bucket, uploads[1].key, uploads[1].body)
              /\ Finish(Part000Response(StripTrailingSlash(storage.PUBLIC_BUCKET_URL.v)
                                        \o <<"/">> \o uploads[1].key,
                                        <<>>, dims.width, dims.height))
         ELSE /\ bucket' = bucket
              /\ Finish(Part000Response(<<>>, uploads[1].base64, dims.width,
                                        dims.height))
    /\ uploads' = <<[uploads[1] EXCEPT !.pc = "done"]>>
    /\ UNCHANGED answer
    /\ Part000Frame

NextGemini ==
    \/ Part000_Receive
    \/ Part000_Responds
    \/ Part000_PutSettles
    \/ GenerateImageTs_Receive
    \/ GenerateImageTs_Responds
    \/ TypesTs_Receive
    \/ TypesTs_Responds
    \/ HistoryItemTsx_Receive
    \/ HistoryItemTsx_Responds

InitGemini ==
    /\ relay \in GeminiRelays
    /\ request \in GeminiRequests
    /\ env \in {[GEMINI_API_KEY |-> Undef], [GEMINI_API_KEY |-> Str(<<"e">>)]}
    /\ InitRelayState
    /\ storage \in IF relay = "part_000"
                   THEN {[IMAGES_BUCKET |-> FALSE, PUBLIC_BUCKET_URL |-> Undef],
                         [IMAGES_BUCKET |-> TRUE,
                          PUBLIC_BUCKET_URL |-> Str(<<"https://cdn.example", "/">>)]}
                   ELSE {[IMAGES_BUCKET |-> FALSE, PUBLIC_BUCKET_URL |-> Undef]}
    /\ bucket = <<>>
    /\ uploads = <<>>
    /\ IdleTrunc
    /\ IdleDims
    /\ IdleSplit
    /\ IdleClient

SpecGemini == InitGemini /\ [][NextGemini]_vars

\* every relay: one request, served by one of the endpoints
Init == InitModelScope \/ InitGemini
Next == NextModelScope \/ NextGemini
Spec == Init /\ [][Next]_vars

\* each upstream call returns and the clock advances
FairModelScope == SpecModelScope /\ WF_vars(NextModelScope)

---------------------------------------------------------------------------
(* Claims about the asynchronous relay *)

AllPending == \A i \in 1..Len(pollLog) : pollLog[i] = "PENDING"

TimeoutResponse ==
    /\ response.status = 500
    /\ response.kind = "json"
    /\ response.message = <<"Generation timed out">>

\* C1: when the polls are answered PENDING, PENDING, SUCCEED with a URL, the
\* relay issues exactly 3 polls, at least 1 second apart, requests the image
\* from the URL of the third answer and returns the bytes that download
\* delivers (the only other end is the download's own failure).
C1_ThreePollsThenImage ==
    (pollLog = <<"PENDING", "PENDING", "SUCCEED">> /\ Truthy(lastPoll.url)) =>
        /\ calls.poll = 3
        /\ minGap >= 1000
        /\ calls.download = 1
        /\ downloadUrl = lastPoll.url
        /\ pc = "done" =>
             IF response.status = 200
             THEN response.kind = "binary" /\ response.body = ImageAt(lastPoll.url)
             ELSE response.message =
                      <<"Failed to download generated image from ModelScope">>

C1_Witness ==
    /\ pc = "done"
    /\ pollLog = <<"PENDING", "PENDING", "SUCCEED">>
    /\ lastPoll.url = Str(<<"u2">>)
    /\ calls.poll = 3
    /\ response.status = 200
    /\ response.body = ImageAt(Str(<<"u2">>))

\* C2: when every poll is answered with a non-terminal status, the relay ends
\* with the timeout error (HTTP 500, JSON, 'Generation timed out') after more
\* than 45 s, without an image and without a download; no poll is issued once
\* the budget has elapsed, and nothing is sent upstream after the failure.
C2_TimeoutIsFinal ==
    /\ [](pc = "done" /\ calls.poll >= 1 /\ AllPending =>
            /\ TimeoutResponse
            /\ now - startTime > 45000
            /\ calls.download = 0)
    /\ [](calls.poll >= 1 => lastPollAt - startTime <= 45000)
    /\ [][TimeoutResponse => calls' = calls /\ pc' = pc]_vars

C2_Witness ==
    /\ pc = "done"
    /\ TimeoutResponse
    /\ calls.poll = 46
    /\ AllPending

\* C3: within one invocation no poll is issued before the submission has
\* returned a task id, the download is issued only after a poll answered
\* SUCCEED with a URL (and goes to that URL), and nothing is submitted or
\* polled after the download.
C3_SubmitPollFetchOrder ==
    /\ [](calls.poll > 0 => calls.submit = 1 /\ Truthy(taskId))
    /\ [](calls.download > 0 =>
            /\ lastPoll.ok /\ lastPoll.status = "SUCCEED" /\ Truthy(lastPoll.url)
            /\ downloadUrl = lastPoll.url
            /\ calls.download = 1)
    /\ [][calls.download > 0 =>
            calls'.submit = calls.submit /\ calls'.poll = calls.poll]_vars
    /\ [][calls'.submit > calls.submit => calls.poll = 0 /\ calls.download = 0]_vars

C3_Witness ==
    /\ pc = "done"
    /\ calls = [submit |-> 1, poll |-> 2, download |-> 1, generate |-> 0]
    /\ response.status = 200

Succeeded == response.status = 200 /\ response.kind = "binary"
Failed ==
    /\ response.status = 500 /\ response.kind = "json"
    /\ response.message # <<"Generation timed out">>

\* C4: an invocation that got a task id always returns a response (the poll
\* loop terminates), and the response is exactly one of: the binary image,
\* the timeout error, another error.
C4_AlwaysTerminates ==
    /\ (pc = "pollCheck") ~> (pc = "done")
    /\ [](pc = "done" /\ Truthy(taskId) =>
            /\ Succeeded \/ Failed \/ TimeoutResponse
            /\ ~(Succeeded /\ Failed) /\ ~(Succeeded /\ TimeoutResponse)
            /\ ~(Failed /\ TimeoutResponse))
    /\ [](calls.poll < MaxPolls)

C4_Witness ==
    /\ pc = "done"
    /\ Truthy(taskId)
    /\ Failed
    /\ calls.poll = 7

---------------------------------------------------------------------------
(* The truncation and the dimension resolvers on their own *)

InitTrunc ==
    /\ tStr \in StringsOf(MaxChars)
    /\ tMax \in 0..MaxBudget
    /\ tResult = <<>>
    /\ tPc = "start"
    /\ IdleRelay
    /\ IdleDims
    /\ IdleStore
    /\ IdleSplit
    /\ IdleClient

SpecTrunc == InitTrunc /\ [][Truncate]_vars

InitDims ==
    /\ dVariant \in DimVariants
    /\ dRatio \in RatioInputs
    /\ dQuality \in QualityInputs
    /\ dResult = Thrown("")
    /\ dPc = "start"
    /\ IdleRelay
    /\ IdleTrunc
    /\ IdleStore
    /\ IdleSplit
    /\ IdleClient

SpecDims == InitDims /\ [][Resolve]_vars

\* a string of whole characters: every surrogate half has its other half
WellFormed(s) ==
    \A i \in 1..Len(s) :
        /\ s[i] = "HI" => i < Len(s) /\ s[i + 1] = "LO"
        /\ s[i] = "LO" => i > 1 /\ s[i - 1] = "HI"

\* C5: the truncated string takes at most maxBytes bytes of UTF-8 and does not
\* end in the middle of a character, surrogate pairs included.
C5_TruncatedOnCharacterBoundary ==
    tPc = "done" =>
        /\ EncodeLen(tResult) <= tMax
        /\ WellFormed(tResult)

---------------------------------------------------------------------------
(* The relays' answers to bad input, and the shape of their successes *)

\* the request carries the credential its relay asks for
CredentialPresent ==
    CASE relay = "modelscope" -> Truthy(request.key)
      [] relay \in {"HistoryItem.tsx", "part_000"} -> Truthy(ApiKey(request, env))
      [] relay \in {"generate-image.ts", "types.ts"} -> Truthy(env.GEMINI_API_KEY)
      [] OTHER -> FALSE

\* the answer the claims name for bad input, and nothing sent upstream
RejectedAsInvalidInput(statuses) ==
    /\ calls = NoCalls
    /\ pc = "done" =>
        /\ response.status \in statuses
        /\ response.code = "INVALID_INPUT"

\* C6: a request whose prompt is empty or missing is answered with HTTP 400
\* and code INVALID_INPUT and no call is made upstream, on the Gemini relays
\* and on the ModelScope relay alike.
C6_EmptyPromptRejected ==
    (relay # "none" /\ CredentialPresent /\ ~Truthy(request.prompt)) =>
        RejectedAsInvalidInput({400})

\* the ratios a relay's own table knows
SupportedRatios ==
    IF relay = "generate-image.ts" THEN ValidRatios10 ELSE ValidRatios5

\* the request is well-formed but for one of the three faults of C7
BadRatioQualityOrLongPrompt ==
    /\ request.prompt.t = "string" /\ Len(request.prompt.v) > 0
    /\ \/ ~Includes(SupportedRatios, request.aspectRatio)
       \/ ~Includes({"1K", "2K", "4K"}, request.quality)
       \/ Len(request.prompt.v) > 2000

\* C7: a request to a Gemini relay whose aspectRatio or quality is outside
\* the supported values, or whose prompt is longer than 2000 characters, is
\* answered with a 4xx INVALID_INPUT before anything is sent upstream.
C7_InvalidInputRejected ==
    (relay \in GeminiRelays /\ CredentialPresent /\ BadRatioQualityOrLongPrompt) =>
        RejectedAsInvalidInput(400..499)

\* C8: every HTTP 200 answer of a relay is the raw image, with
\* X-Image-Width and X-Image-Height holding decimal integers.
C8_SuccessIsBinaryWithIntegerHeaders ==
    (relay # "none" /\ pc = "done" /\ response.status = 200) =>
        /\ response.kind = "binary"
        /\ IsDecimalInteger(response.xw)
        /\ IsDecimalInteger(response.xh)

\* the (aspectRatio, quality) pairs of the binary relay's table
InTable ==
    /\ Includes(ValidRatios5, request.aspectRatio)
    /\ Includes({"1K", "2K", "4K"}, request.quality)

BinarySuccess ==
    relay = "HistoryItem.tsx" /\ pc = "done" /\ response.status = 200

\* the table entry of the request, as the table of HistoryItem.tsx lists it
TableEntry ==
    LET r == request.aspectRatio.v[1]
        scale == CASE request.quality.v[1] = "1K" -> 1
                   [] request.quality.v[1] = "2K" -> 2
                   [] request.quality.v[1] = "4K" -> 4
        base == CASE r = "1:1" -> <<1024, 1024>>
                  [] r = "3:4" -> <<768, 1024>>
                  [] r = "4:3" -> <<1024, 768>>
                  [] r = "9:16" -> <<576, 1024>>
                  [] r = "16:9" -> <<1024, 576>>
    IN  <<base[1] * scale, base[2] * scale>>

PositiveNumber(x) == x.t = "number" /\ Len(x.v) = 1 /\ x.v[1] > 0

\* C10: for any (aspectRatio, quality), every getDimensions variant either
\* throws or returns a width and a height that are positive numbers.
C10_NeverUndefinedOrNonPositive ==
    (dPc = "done" /\ dResult.ok) =>
        PositiveNumber(dResult.width) /\ PositiveNumber(dResult.height)

---------------------------------------------------------------------------
(* The asynchronous relay's failures *)

\* a JSON error answer with the given message
JsonError(status, message) ==
    /\ response.kind = "json"
    /\ response.body = <<"error">>
    /\ response.status = status
    /\ response.message = message

SucceedWithoutUrl ==
    /\ lastPoll.ok /\ lastPoll.status = "SUCCEED"
    /\ lastPoll.url \in {Undef, Str(<<>>)}

\* C11: when the provider reports SUCCEED without an output image URL the
\* relay ends with the missing-URL error as a JSON answer, and no image
\* download is attempted.
C11_SucceedWithoutUrlFails ==
    SucceedWithoutUrl =>
        /\ pc = "done"
        /\ JsonError(500, <<"No image URL in success response">>)
        /\ calls.download = 0
        /\ downloadUrl = Undef

\* the second poll succeeds with an empty URL
C11_Witness ==
    /\ SucceedWithoutUrl
    /\ lastPoll.url = Str(<<>>)
    /\ pollLog = <<"PENDING", "SUCCEED">>
    /\ pc = "done"

FailedAnswer == lastPoll.ok /\ lastPoll.status = "FAILED"

\* C12: when a poll reports FAILED the relay stops at once: no further poll,
\* no image download, and an error that carries the provider's answer.
C12_FailedStopsWithPayload ==
    /\ [](FailedAnswer =>
            /\ pc = "done"
            /\ calls.poll = Len(pollLog)
            /\ calls.download = 0
            /\ response.kind = "json" /\ response.status = 500
            /\ response.message =
                   <<"Generation failed: ", "task_status", "FAILED", "output_images">>
                   \o lastPoll.url.v)
    /\ [][FailedAnswer => calls' = calls /\ pc' = pc]_vars

\* the third poll reports FAILED, with a payload of its own
C12_Witness ==
    /\ FailedAnswer
    /\ pollLog = <<"PENDING", "PENDING", "FAILED">>
    /\ lastPoll.url = Str(<<"u1">>)
    /\ response.message[Len(response.message)] = "u1"

PollHttpError ==
    /\ pollLog # <<>>
    /\ pollLog[Len(pollLog)] = "HTTP_ERROR"
    /\ ~lastPoll.ok

\* C13: a poll answered with a non-success HTTP status ends the request with
\* the polling error as a JSON answer; the poll is not sent again, and no
\* later poll and no image download are issued.
C13_PollHttpErrorIsFinal ==
    /\ [](PollHttpError =>
            /\ pc = "done"
            /\ JsonError(500, <<"Polling failed">>)
            /\ calls.poll = Len(pollLog)
            /\ calls.download = 0)
    /\ [][PollHttpError => calls' = calls /\ pc' = pc]_vars

\* two polls answered PENDING, the third with an HTTP error
C13_Witness ==
    /\ PollHttpError
    /\ pollLog = <<"PENDING", "PENDING", "HTTP_ERROR">>
    /\ calls.poll = 3
    /\ pc = "done"

\* the submission was answered, with a non-success status or without a task id
SubmissionRejected ==
    /\ calls.submit = 1 /\ pc \notin {"start", "awaitSubmit"}
    /\ ~lastSubmit.ok \/ lastSubmit.task_id \in {Undef, Str(<<>>)}

\* C14: when the submission is answered with a non-success HTTP status, or
\* with success but no task id, the relay ends with the submission error and
\* issues no poll and no image download.
C14_SubmissionErrorIsFinal ==
    SubmissionRejected =>
        /\ pc = "done"
        /\ JsonError(500, IF ~lastSubmit.ok
                          THEN <<"ModelScope Submit Failed: ">> \o Digits(lastSubmit.status)
                          ELSE <<"No task_id received from ModelScope">>)
        /\ calls.poll = 0 /\ calls.download = 0
        /\ pollLog = <<>>

\* a submission answered 500, though the answer names a task
C14_Witness ==
    /\ SubmissionRejected
    /\ lastSubmit.status = 500 /\ Truthy(lastSubmit.task_id)
    /\ pc = "done"

---------------------------------------------------------------------------
(* The uploader's answers *)

\* the storage is configured as the uploader wants it
Configured == storage.IMAGES_BUCKET /\ storage.PUBLIC_BUCKET_URL.t = "string"
              /\ storage.PUBLIC_BUCKET_URL.v # <<>>

\* the puts the bucket has taken, over all keys
RECURSIVE PutsOf(_)
PutsOf(keys) ==
    IF keys = {} THEN 0
    ELSE LET k == CHOOSE x \in keys : TRUE
         IN  bucket[k].puts + PutsOf(keys \ {k})

\* the uploads that were answered with a URL
Stored == {i \in DOMAIN uploads : uploads[i].response.status = 200}

C16_StorageUnavailable ==
    ~Configured =>
        /\ bucket = <<>>
        /\ \A i \in DOMAIN uploads :
             uploads[i].pc # "start" =>
                /\ uploads[i].pc = "done"
                /\ uploads[i].response =
                       [status |-> 500, kind |-> "json",
                        message |-> <<"Server R2 configuration missing.">>,
                        url |-> <<>>]

\* the bucket is bound but the base URL is not set; an upload with a body and
\* one without were both refused
C16_Witness ==
    /\ storage.IMAGES_BUCKET /\ storage.PUBLIC_BUCKET_URL = Undef
    /\ \E i, j \in DOMAIN uploads :
         /\ uploads[i].pc = "done" /\ uploads[i].body = <<66, 67>>
         /\ uploads[j].pc = "done" /\ uploads[j].body = <<>>

\* C17: no two uploads write to the same key, so no object of the bucket is
\* ever written twice.
C17_NoKeyWrittenTwice ==
    /\ \A i, j \in DOMAIN uploads :
         (i # j /\ uploads[i].key # <<>> /\ uploads[j].key # <<>>) =>
             uploads[i].key # uploads[j].key
    /\ \A k \in DOMAIN bucket : bucket[k].puts = 1

---------------------------------------------------------------------------
(* The grid splitter: splitImageToGrid (unnamed/part_004, lines 261-303) and *)
(* its caller handleSplitImage (components/SettingsModal.tsx, lines 298-311). *)
(* Lengths that may be fractional are kept in thirds of a pixel.             *)

MaxSide == 7
MaxSplits == 2

\* canvas.width = pieceWidth: the attribute is an unsigned long, the fraction is dropped
CanvasSide(side) == side \div 3

\* canvas.toDataURL('image/png'): a canvas without pixels gives "data:,"
toDataURL(canvas) ==
    IF canvas.width = 0 \/ canvas.height = 0
    THEN [kind |-> "data:,", width |-> 0, height |-> 0,
          sx3 |-> 0, sy3 |-> 0, sw3 |-> 0, sh3 |-> 0]
    ELSE [kind |-> "image/png", width |-> canvas.width, height |-> canvas.height,
          sx3 |-> canvas.sx3, sy3 |-> canvas.sy3, sw3 |-> canvas.sw3,
          sh3 |-> canvas.sh3]

\* ctx.clearRect(...); ctx.drawImage(img, x * pieceWidth, y * pieceHeight,
\*                                   pieceWidth, pieceHeight, 0, 0, pieceWidth, pieceHeight)
DrawTile(img, x, y) ==
    [width |-> CanvasSide(img.width), height |-> CanvasSide(img.height),
     sx3 |-> x * img.width, sy3 |-> y * img.height,
     sw3 |-> img.width, sh3 |-> img.height]

\* for (let y = 0; y < rows; y++) for (let x = 0; x < cols; x++) pieces.push(...)
RECURSIVE GridLoop(_, _, _, _)
GridLoop(img, y, x, pieces) ==
    IF y >= 3 THEN pieces
    ELSE IF x >= 3 THEN GridLoop(img, y + 1, 0, pieces)
    ELSE GridLoop(img, y, x + 1, Append(pieces, toDataURL(DrawTile(img, x, y))))

\* SettingsModal.tsx lines 298-302: the guard, the flag, and the call, which
\* makes the object URL and starts loading the image (part_004 lines 263-265)
HandleSplitImage ==
    /\ gPc = "idle"
    /\ gUrls.minted < MaxSplits
    /\ gView' = [gView EXCEPT !.processingSplit = TRUE]
    /\ gUrls' = [minted |-> gUrls.minted + 1, live |-> gUrls.live \cup {gUrls.minted + 1}]
    /\ gPc' = "loading"
    /\ UNCHANGED <<gImage, gCtx, gSettled, gRuns>>
    /\ UNCHANGED <<relayVars, truncVars, dimVars, storeVars, answer, clientVars>>

\* part_004 lines 267-296: img.onload
Image_OnLoad ==
    /\ gPc = "loading" /\ gImage.decodable
    /\ IF ~gCtx
       THEN /\ gSettled' = [state |-> "rejected", pieces |-> <<>>]
            /\ UNCHANGED <<gUrls, gRuns>>
       ELSE LET pieces == GridLoop(gImage, 0, 0, <<>>) IN
            /\ gUrls' = [gUrls EXCEPT !.live = @ \ {gUrls.minted}]
            /\ gSettled' = [state |-> "resolved", pieces |-> pieces]
            /\ gRuns' = Append(gRuns, pieces)
    /\ gPc' = "settled"
    /\ UNCHANGED <<gImage, gCtx, gView>>
    /\ UNCHANGED <<relayVars, truncVars, dimVars, storeVars, answer, clientVars>>

\* part_004 line 298: img.onerror = reject
Image_OnError ==
    /\ gPc = "loading" /\ ~gImage.decodable
    /\ gSettled' = [state |-> "rejected", pieces |-> <<>>]
    /\ gPc' = "settled"
    /\ UNCHANGED <<gImage, gCtx, gUrls, gRuns, gView>>
    /\ UNCHANGED <<relayVars, truncVars, dimVars, storeVars, answer, clientVars>>

\* SettingsModal.tsx lines 303-310: after the await
HandleSplitImage_Resume ==
    /\ gPc = "settled"
    /\ gView' = IF gSettled.state = "resolved"
                THEN [gView EXCEPT !.splitImages = gSettled.pieces,
                                   !.isSplitView = TRUE,
                                   !.processingSplit = FALSE]
                ELSE [gView EXCEPT !.error = "split failed",
                                   !.processingSplit = FALSE]
    /\ gPc' = "idle"
    /\ UNCHANGED <<gImage, gCtx, gUrls, gSettled, gRuns>>
    /\ UNCHANGED <<relayVars, truncVars, dimVars, storeVars, answer, clientVars>>

NextSplit ==
    \/ HandleSplitImage
    \/ Image_OnLoad
    \/ Image_OnError
    \/ HandleSplitImage_Resume

InitSplit ==
    /\ gImage \in [width : 1..MaxSide, height : 1..MaxSide, decodable : BOOLEAN]
    /\ gCtx \in BOOLEAN
    /\ gPc = "idle"
    /\ gUrls = [minted |-> 0, live |-> {}]
    /\ gSettled = NoPromise
    /\ gRuns = <<>>
    /\ gView = NoView
    /\ IdleRelay
    /\ IdleTrunc
    /\ IdleDims
    /\ IdleStore
    /\ IdleClient

SpecSplit == InitSplit /\ [][NextSplit]_vars

\* a and b differ by less than one pixel per tile
WithinRounding(a, b) == a - b \in -2..2

\* C18: a split of a decodable W x H image gives exactly 9 tiles in row-major
\* order; the widths of each row sum to W and the heights of each column to H
\* up to rounding; and a second split of the same image gives the same tiles.
C18_NineTilesCoveringTheImage ==
    /\ \A r \in 1..Len(gRuns) :
         /\ Len(gRuns[r]) = 9
         /\ \A k \in 1..9 :
              /\ gRuns[r][k].kind = "image/png"
              /\ gRuns[r][k].sx3 = ((k - 1) % 3) * gImage.width
              /\ gRuns[r][k].sy3 = ((k - 1) \div 3) * gImage.height
         /\ \A row \in 0..2 :
              WithinRounding(gRuns[r][3 * row + 1].width + gRuns[r][3 * row + 2].width
                             + gRuns[r][3 * row + 3].width, gImage.width)
         /\ \A col \in 1..3 :
              WithinRounding(gRuns[r][col].height + gRuns[r][col + 3].height
                             + gRuns[r][col + 6].height, gImage.height)
    /\ \A r1, r2 \in 1..Len(gRuns) : gRuns[r1] = gRuns[r2]

---------------------------------------------------------------------------
(* The relays' error answers and the credential sent upstream *)

\* the relay has answered, and not with a success
RelayFailed == relay # "none" /\ pc = "done" /\ response.status # 200

\* the request was refused before anything was sent upstream although its
\* credential was there: the fault is in the client's input
ClientInputFault == CredentialPresent /\ calls = NoCalls

\* C19: a failed generation request is answered with the JSON body
\* {error:{code, message, details?}}; the status is 4xx for invalid client
\* input, the provider's status or 500 for an upstream failure, and 500 for
\* an internal error; on the Gemini relays and the ModelScope relay alike.
C19_ErrorEnvelope ==
    RelayFailed =>
        /\ response.kind = "json" /\ response.body = <<"error">>
        /\ response.code # "" /\ response.message # <<>>
        /\ response.status \in 400..599
        /\ ClientInputFault => response.status \in 400..499

\* a request that passes every relay's validation
PlainRequest ==
    /\ request.prompt = Str(<<"A">>)
    /\ request.aspectRatio = K("1:1") /\ request.quality = K("1K")

\* C20: a Gemini relay calls the provider with the x-goog-api-key header
\* when the request has one and with GEMINI_API_KEY only when it has none;
\* with neither it answers with an error and does not call the provider.
C20_HeaderKeyBeforeServerKey ==
    relay \in GeminiRelays =>
        /\ calls.generate >= 1 =>
              payload.key = IF Truthy(request.key) THEN request.key
                            ELSE env.GEMINI_API_KEY
        /\ (Truthy(request.key) /\ PlainRequest /\ pc = "done") => calls.generate = 1
        /\ (~Truthy(request.key) /\ ~Truthy(env.GEMINI_API_KEY)) =>
              /\ calls = NoCalls
              /\ pc = "done" => response.status # 200 /\ response.kind = "json"

---------------------------------------------------------------------------
(* The provider's parts, as the synchronous relays read them *)

\* the parts of a 200 answer that carry an image that decodes
ImageParts(ans) ==
    IF ~ans.hasParts THEN {}
    ELSE {i \in 1..Len(ans.parts) :
            /\ Truthy(ans.parts[i].inlineData)
            /\ Truthy(ans.parts[i].inlineData.v[1])
            /\ atob(ans.parts[i].inlineData.v[1].v).ok}

\* the parts with inlineData at all
InlineParts(ans) ==
    IF ~ans.hasParts THEN {}
    ELSE {i \in 1..Len(ans.parts) : Truthy(ans.parts[i].inlineData)}

FirstOf(S) == CHOOSE i \in S : \A j \in S : i <= j

MissingImageData ==
    /\ response.status = 500
    /\ response.message \in {<<"no image data">>, <<"No image data returned.">>}

\* the answer carries the image given as base64
ServesImage(base64) ==
    \/ response.kind = "binary" /\ response.body = atob(base64).bytes
    \/ response.kind = "json" /\ response.body = <<"base64">> \o base64
    \/ response.kind = "json" /\ response.body = <<"url", "null", "base64">> \o base64
    \/ /\ response.kind = "json" /\ Len(response.body) > 1 /\ response.body[1] = "url"
       /\ response.body[2] # "null"
       /\ \E k \in DOMAIN bucket : bucket[k].value = atob(base64).bytes

\* C21: after a 200 answer of the provider, a synchronous relay whose first
\* part with inline data decodes answers with that part's image, wherever the
\* part is in the list, and a relay given no part with inline data answers
\* with the missing-image error.
C21_FirstInlinePartIsServed ==
    (relay \in GeminiRelays /\ pc = "done" /\ answer.ok) =>
        /\ (InlineParts(answer) # {} /\ FirstOf(InlineParts(answer)) \in ImageParts(answer))
              => /\ ~MissingImageData
                 /\ response.status = 200 =>
                      ServesImage(answer.parts[FirstOf(InlineParts(answer))].inlineData.v[1].v)
        /\ InlineParts(answer) = {} => MissingImageData

---------------------------------------------------------------------------
(* The polling budget *)

\* C27: the asynchronous relay issues no poll once more than 45000 ms have
\* passed at the loop's check, and at most 46 polls in all; a task that stays
\* pending, answered at once and polled exactly 1 s apart, is polled at
\* 0, 1, ..., 45 s, 46 times, and then fails with the timeout error.
C27_PollsWithinBudget ==
    relay = "modelscope" =>
        /\ calls.poll >= 1 =>
              /\ lastPollAt - startTime <= 45000
              /\ lastPollAt - startTime >= 1000 * (calls.poll - 1)
        /\ calls.poll <= 46
        /\ (pc = "done" /\ AllPending /\ calls.poll >= 1
              /\ now - startTime = 1000 * calls.poll)
             => TimeoutResponse /\ calls.poll = 46 /\ lastPollAt - startTime = 45000

C27_Witness ==
    /\ pc = "awaitPoll"
    /\ AllPending
    /\ calls.poll = 46
    /\ lastPollAt - startTime = 45000

---------------------------------------------------------------------------
(* The getDimensions variants against one another *)

\* C28: for each of the five supported aspect ratios and the three quality
\* tiers, every getDimensions variant returns a result, and all of them return
\* the same width and height.
C28_VariantsAgree ==
    (dPc = "done" /\ dRatio \in {K(r) : r \in ValidRatios5}
        /\ dQuality \in {K("1K"), K("2K"), K("4K")}) =>
        /\ dResult.ok
        /\ dResult.width.t = "number" /\ dResult.height.t = "number"
        /\ \A v \in DimVariants :
              LET other == getDimensions(v, dRatio, dQuality) IN
              other.ok /\ other.width = dResult.width /\ other.height = dResult.height

C28_Witness ==
    /\ dPc = "done"
    /\ dVariant = "part_004:134"
    /\ dRatio = K("9:16") /\ dQuality = K("4K")
    /\ dResult = Returned(Num(2304), Num(4096))
    /\ getDimensions("generate-image.ts:12", dRatio, dQuality) = dResult

---------------------------------------------------------------------------
(* truncateByBytes as a function of its input *)

Prefix(s, n) == SubSeq(s, 1, n)

\* the lengths of the prefixes of s whose encoding takes at most maxBytes bytes
FittingPrefixes(s, maxBytes) ==
    {n \in 0..Len(s) : EncodeLen(Prefix(s, n)) <= maxBytes}

\* C30: truncateByBytes returns its input when the input's UTF-8 length is
\* within the budget; otherwise it returns the longest prefix of the input
\* whose UTF-8 encoding fits the budget; truncating the result again with the
\* same budget changes nothing.
C30_LongestFittingPrefix ==
    tPc = "done" =>
        /\ EncodeLen(tStr) <= tMax => tResult = tStr
        /\ EncodeLen(tStr) > tMax =>
              /\ Len(tResult) \in FittingPrefixes(tStr, tMax)
              /\ tResult = Prefix(tStr, Len(tResult))
              /\ \A n \in FittingPrefixes(tStr, tMax) : n <= Len(tResult)
        /\ truncateByBytes(tResult, tMax) = tResult

C30_Witness ==
    /\ tPc = "done"
    /\ tStr = <<"Z", "E", "A">> /\ tMax = 5
    /\ tResult = <<"Z", "E">>

---------------------------------------------------------------------------
(* The history list: saveToHistory and deleteHistoryItem of App.tsx (lines   *)
(* 55-69), of unnamed/part_001 (lines 31-52) and of SettingsModal.tsx (lines *)
(* 169-191).  Both run as updaters of setHistory, on the latest list.        *)

MAX_HISTORY == 20

\* an entry: its id and, once uploaded, the URL of its image
NoUrl == <<>>
UrlOf(id) == <<"https://cdn.example/", id>>
HistoryItem(id, cloud) == [id |-> id, imageUrl |-> cloud]

Ids(list) == {list[i].id : i \in 1..Len(list)}

FindIndexNever(list, id) == 0

\* prev.findIndex(p => p.id === newItem.id), counted from 1; 0 for "not found"
FindIndex(list, id) ==
    IF id \in Ids(list)
    THEN CHOOSE i \in 1..Len(list) :
            /\ list[i].id = id
            /\ \A j \in 1..(i - 1) : list[j].id # id
    ELSE 0

KeepAll(list) == list

\* .slice(0, MAX_HISTORY)
KeepNewest(list) == SubSeq(list, 1, Min(Len(list), MAX_HISTORY))

\* the updater of saveToHistory
saveToHistory(prev, newItem) ==
    LET existingIdx == FindIndex(prev, newItem.id) IN
    IF existingIdx >= 1
    THEN [prev EXCEPT ![existingIdx] = newItem]
    ELSE KeepNewest(<<newItem>> \o prev)

KeepItem(item, id) == item.id # id

\* prev.filter(item => item.id !== id)
deleteHistoryItem(prev, id) == SelectSeq(prev, LAMBDA item : KeepItem(item, id))

\* the calls made to the list in one session
MaxCalls == 3

\* a stored list of n entries, the newest (highest id) first
StoredHistory(n) == [i \in 1..n |-> HistoryItem(n + 1 - i, NoUrl)]

InitialHistories ==
    {StoredHistory(n) : n \in {0, 1, MAX_HISTORY - 1, MAX_HISTORY}}

SavedIds == {1, MAX_HISTORY, MAX_HISTORY + 1, MAX_HISTORY + 2}
DeletedIds == {1, MAX_HISTORY, MAX_HISTORY + 1}

HistoryFrame ==
    UNCHANGED <<view, rendered, flights, sent, clicks, nextId, relayVars, storeVars,
                splitVars, truncVars, dimVars, answer>>

SaveToHistory ==
    /\ Len(hCalls) < MaxCalls
    /\ \E id \in SavedIds, uploaded \in BOOLEAN :
         LET newItem == HistoryItem(id, IF uploaded THEN UrlOf(id) ELSE NoUrl) IN
         /\ history' = saveToHistory(history, newItem)
         /\ hCalls' = Append(hCalls, [op |-> "save", item |-> newItem])
    /\ HistoryFrame

DeleteHistoryItem ==
    /\ Len(hCalls) < MaxCalls
    /\ \E id \in DeletedIds :
         /\ history' = deleteHistoryItem(history, id)
         /\ hCalls' = Append(hCalls, [op |-> "delete", item |-> HistoryItem(id, NoUrl)])
    /\ HistoryFrame

NextHistory == SaveToHistory \/ DeleteHistoryItem

InitHistory ==
    /\ history \in InitialHistories
    /\ hCalls = <<>>
    /\ view = InitialView
    /\ rendered = [currentResult |-> NoResult, uploading |-> FALSE, loading |-> FALSE,
                   history |-> <<>>]
    /\ flights = <<>>
    /\ sent = [generate |-> 0, upload |-> 0]
    /\ clicks = [generate |-> 0, upload |-> 0]
    /\ nextId = 0
    /\ IdleRelay
    /\ IdleTrunc
    /\ IdleDims
    /\ IdleStore
    /\ IdleSplit

SpecHistory == InitHistory /\ [][NextHistory]_vars

PairwiseDistinct(list) ==
    \A i, j \in 1..Len(list) : list[i].id = list[j].id => i = j

\* the step is a call of saveToHistory, and LastCall' is that call
Saved == Len(hCalls') = Len(hCalls) + 1 /\ hCalls'[Len(hCalls')].op = "save"
SavedItem == hCalls'[Len(hCalls')].item

\* C24: a history of at most 20 entries never grows beyond 20 (MAX_HISTORY)
\* through saveToHistory and deleteHistoryItem; saving an item with a new id
\* puts it at the front, keeps the others in order, and drops exactly the last
\* entry when the list was full.
C24_AtMostTwentyNewestFirst ==
    /\ [](Len(history) <= 20)
    /\ [][(Saved /\ SavedItem.id \notin Ids(history)) =>
            /\ history'[1] = SavedItem
            /\ Len(history') = IF Len(history) = 20 THEN 20 ELSE Len(history) + 1
            /\ \A i \in 2..Len(history') : history'[i] = history[i - 1]]_vars

C24_Witness ==
    /\ Len(hCalls) >= 1
    /\ hCalls[Len(hCalls)] = [op |-> "save", item |-> HistoryItem(21, NoUrl)]
    /\ Len(history) = 20
    /\ history[1].id = 21 /\ history[20].id = 2

\* C29: from a history with pairwise distinct ids, saveToHistory and
\* deleteHistoryItem reach only lists with pairwise distinct ids; saving an item
\* whose id is present replaces that entry where it is and leaves the length,
\* the order and every other entry as they were.
C29_DistinctIdsReplaceInPlace ==
    /\ [](PairwiseDistinct(history))
    /\ [][(Saved /\ SavedItem.id \in Ids(history)) =>
            /\ Len(history') = Len(history)
            /\ \A i \in 1..Len(history) :
                  history'[i] = IF history[i].id = SavedItem.id THEN SavedItem
                                ELSE history[i]]_vars

C29_Witness ==
    /\ Len(hCalls) >= 1
    /\ hCalls[Len(hCalls)] = [op |-> "save", item |-> HistoryItem(1, UrlOf(1))]
    /\ Len(history) = 20
    /\ history[20] = HistoryItem(1, UrlOf(1))
    /\ history[1].id = 20 /\ history[19].id = 2

---------------------------------------------------------------------------
(* The view: handleGenerate, handleUpload and restoreHistoryItem of App.tsx  *)
(* (lines 86-194; the same code is in SettingsModal.tsx lines 208-286), with *)
(* generateImageBlob and uploadImageBlob of unnamed/part_004.  A handler     *)
(* reads the state its render closed over (rendered); an updater function   *)
(* passed to a setter reads the latest state.  A run of an async handler is  *)
(* suspended at each await and resumed when the awaited promise settles.     *)

\* the clicks on the generate and upload buttons in one session
MaxClicks == 3

\* { blob, localUrl, cloudUrl, width, height, historyId }; blob 0 is new Blob()
Result(blob, localUrl, cloudUrl, historyId) ==
    [blob |-> blob, localUrl |-> localUrl, cloudUrl |-> cloudUrl, width |-> 1024,
     height |-> 1024, historyId |-> historyId]

\* URL.createObjectURL(blob)
ObjectUrl(blob) == <<"blob:", blob>>

\* item.thumbnailBase64
Thumbnail(id) == <<"data:image/jpeg;base64,", id>>

FetchTwice(counts, endpoint) == [counts EXCEPT ![endpoint] = @ + 2]

\* await fetch(endpoint, ...): one request
Fetch(counts, endpoint) == [counts EXCEPT ![endpoint] = @ + 1]

\* the state a render hands to its handlers
Closure == [currentResult |-> view.currentResult, uploading |-> view.uploading,
            loading |-> view.loading, history |-> history]

\* the page is open: the view is mounted and the clock is read
Mounted == nextId >= 1

\* a run that has ended holds nothing any more
Ended(flight, how) ==
    [kind |-> flight.kind, pc |-> how, currentResult |-> NoResult, history |-> <<>>]

ClientFrame ==
    UNCHANGED <<hCalls, relayVars, storeVars, splitVars, truncVars, dimVars, answer>>

\* React renders the component again with the state as it is now
Render ==
    /\ Mounted
    /\ rendered # Closure
    /\ rendered' = Closure
    /\ UNCHANGED <<history, view, flights, sent, clicks, nextId>>
    /\ ClientFrame

\* App.tsx lines 86-97; the button is disabled={loading || !prompt}
HandleGenerate ==
    /\ Mounted
    /\ ~rendered.loading
    /\ clicks.generate + clicks.upload < MaxClicks
    /\ clicks' = [clicks EXCEPT !.generate = @ + 1]
    /\ \E apiKey \in BOOLEAN, prompt \in {<<" ">>, <<"A">>} :
         IF ~apiKey
         THEN /\ view' = [view EXCEPT !.error = <<"configure the API key first">>]
              /\ UNCHANGED <<flights, sent>>
         ELSE IF prompt = <<" ">>
         THEN /\ view' = [view EXCEPT !.error = <<"enter a prompt">>]
              /\ UNCHANGED <<flights, sent>>
         ELSE /\ view' = [view EXCEPT !.loading = TRUE, !.error = <<>>,
                                      !.currentResult = NoResult]
              /\ sent' = Fetch(sent, "generate")
              /\ flights' = Append(flights,
                                   [kind |-> "generate", pc |-> "awaitFetch",
                                    currentResult |-> NoResult, history |-> <<>>])
    /\ UNCHANGED <<history, rendered, nextId>>
    /\ ClientFrame

\* catch (err) { setError(err.message || "generation failed") } finally { setLoading(false) }
GenerateFailed(v, message) == [v EXCEPT !.error = message, !.loading = FALSE]

\* App.tsx lines 99-107 and part_004 lines 172-211: the relay's answer; a
\* non-ok answer and an unreachable relay both throw
HandleGenerate_FetchSettles ==
    \E i \in 1..Len(flights), ok \in BOOLEAN :
      /\ flights[i].kind = "generate" /\ flights[i].pc = "awaitFetch"
      /\ IF ok
         THEN /\ nextId' = nextId + 1
              /\ flights' = [flights EXCEPT ![i].pc = "awaitThumbnail",
                                            ![i].currentResult =
                                                Result(nextId', ObjectUrl(nextId'),
                                                       NoUrl, nextId')]
              /\ UNCHANGED view
         ELSE /\ view' = GenerateFailed(view, <<"Generation failed">>)
              /\ flights' = [flights EXCEPT ![i] = Ended(@, "failed")]
              /\ UNCHANGED nextId
      /\ UNCHANGED <<history, rendered, sent, clicks>>
      /\ ClientFrame

\* App.tsx lines 109-139: the thumbnail is there; the item is saved and shown
HandleGenerate_ThumbnailSettles ==
    \E i \in 1..Len(flights) :
      /\ flights[i].kind = "generate" /\ flights[i].pc = "awaitThumbnail"
      /\ history' = saveToHistory(history,
                                  HistoryItem(flights[i].currentResult.historyId, NoUrl))
      /\ view' = [view EXCEPT !.currentResult = flights[i].currentResult,
                              !.loading = FALSE]
      /\ flights' = [flights EXCEPT ![i] = Ended(@, "done")]
      /\ UNCHANGED <<rendered, sent, clicks, nextId>>
      /\ ClientFrame

\* App.tsx lines 142-146; the button is rendered while the result has no
\* cloudUrl, and the guard reads the render's currentResult and uploading
HandleUpload ==
    /\ Mounted
    /\ rendered.currentResult # NoResult
    /\ rendered.currentResult.cloudUrl = NoUrl
    /\ clicks.generate + clicks.upload < MaxClicks
    /\ clicks' = [clicks EXCEPT !.upload = @ + 1]
    /\ IF rendered.uploading
       THEN UNCHANGED <<view, sent, flights>>
       ELSE /\ view' = [view EXCEPT !.uploading = TRUE]
            /\ sent' = Fetch(sent, "upload")
            /\ flights' = Append(flights,
                                 [kind |-> "upload", pc |-> "awaitFetch",
                                  currentResult |-> rendered.currentResult,
                                  history |-> rendered.history])
    /\ UNCHANGED <<history, rendered, nextId>>
    /\ ClientFrame

\* setCurrentResult(prev => prev ? { ...prev, cloudUrl: url } : null)
AttachCloudUrl(prev, url) ==
    IF prev = NoResult THEN NoResult ELSE [prev EXCEPT !.cloudUrl = url]

UploadFailedDropsResult(v, message) ==
    [v EXCEPT !.error = <<"upload failed: ">> \o message, !.uploading = FALSE,
              !.currentResult = NoResult]

\* catch (e) { setError("upload failed: " + e.message) } finally { setUploading(false) }
UploadFailed(v, message) ==
    [v EXCEPT !.error = <<"upload failed: ">> \o message, !.uploading = FALSE]

\* App.tsx lines 145-160 and part_004 lines 216-239: the uploader's answer.  It
\* answers an empty body with an error; a non-ok answer and an unreachable
\* uploader both throw.
HandleUpload_FetchSettles ==
    \E i \in 1..Len(flights), outcome \in {"ok", "error", "unreachable"} :
      /\ flights[i].kind = "upload" /\ flights[i].pc = "awaitFetch"
      /\ outcome = "ok" => flights[i].currentResult.blob # 0
      /\ IF outcome = "ok"
         THEN LET url == UrlOf(flights[i].currentResult.historyId)
                  idx == FindIndex(flights[i].history,
                                   flights[i].currentResult.historyId)
              IN /\ view' = [view EXCEPT
                               !.currentResult = AttachCloudUrl(@, url),
                               !.uploading = FALSE]
                 /\ history' = IF idx >= 1
                               THEN saveToHistory(history,
                                       [flights[i].history[idx] EXCEPT !.imageUrl = url])
                               ELSE history
                 /\ flights' = [flights EXCEPT ![i] = Ended(@, "done")]
         ELSE /\ view' = UploadFailed(view, IF outcome = "error"
                                            THEN <<"Empty upload body.">>
                                            ELSE <<"Failed to fetch">>)
              /\ flights' = [flights EXCEPT ![i] = Ended(@, "failed")]
              /\ UNCHANGED history
      /\ UNCHANGED <<rendered, sent, clicks, nextId>>
      /\ ClientFrame

\* App.tsx lines 174-194: a click on an entry of the rendered history
RestoreHistoryItem ==
    /\ Mounted
    /\ \E i \in 1..Len(rendered.history) :
         LET item == rendered.history[i] IN
         view' = [view EXCEPT !.currentResult =
                     Result(0,
                            IF item.imageUrl # NoUrl THEN item.imageUrl
                            ELSE Thumbnail(item.id),
                            item.imageUrl, item.id)]
    /\ UNCHANGED <<history, rendered, flights, sent, clicks, nextId>>
    /\ ClientFrame

NextClient ==
    \/ Render
    \/ HandleGenerate
    \/ HandleGenerate_FetchSettles
    \/ HandleGenerate_ThumbnailSettles
    \/ HandleUpload
    \/ HandleUpload_FetchSettles
    \/ RestoreHistoryItem

\* the view mounts; localStorage holds no history, or one uploaded entry
InitClient ==
    /\ history \in {<<>>, <<HistoryItem(1, UrlOf(1))>>}
    /\ hCalls = <<>>
    /\ view = InitialView
    /\ rendered = [currentResult |-> NoResult, uploading |-> FALSE, loading |-> FALSE,
                   history |-> <<>>]
    /\ flights = <<>>
    /\ sent = [generate |-> 0, upload |-> 0]
    /\ clicks = [generate |-> 0, upload |-> 0]
    /\ nextId = 1
    /\ IdleRelay
    /\ IdleTrunc
    /\ IdleDims
    /\ IdleStore
    /\ IdleSplit

SpecClient == InitClient /\ [][NextClient]_vars

\* every request of every part of the system: the relays, each serving one
\* request, and the view
InitSystem == Init \/ InitClient
NextSystem == Next \/ NextClient
SpecSystem == InitSystem /\ [][NextSystem]_vars

---------------------------------------------------------------------------
(* Claims about the view *)

\* the step resumes an upload whose request failed
UploadFails(i) ==
    /\ i <= Len(flights)
    /\ flights[i].kind = "upload" /\ flights[i].pc = "awaitFetch"
    /\ flights'[i].pc = "failed"

\* C22: when the upload request fails (an error answer or no answer),
\* handleUpload changes the error message and the uploading flag and nothing
\* else: the current result (blob, local URL, dimensions, cloudUrl) and the
\* history stay as they were, and uploading is false afterwards.
C22_FailedUploadKeepsResult ==
    [][\A i \in 1..MaxClicks :
         UploadFails(i) =>
            /\ view'.currentResult = view.currentResult
            /\ history' = history
            /\ view'.loading = view.loading
            /\ view'.uploading = FALSE
            /\ view'.error # <<>>
            /\ (view.currentResult = flights[i].currentResult
                  => view'.currentResult.cloudUrl = NoUrl)]_vars

C22_Witness ==
    \E i \in 1..Len(flights) :
      /\ flights[i].kind = "upload" /\ flights[i].pc = "failed"
      /\ view.currentResult # NoResult
      /\ view.currentResult.blob # 0
      /\ view.currentResult.cloudUrl = NoUrl
      /\ view.error = <<"upload failed: ", "Failed to fetch">>
      /\ ~view.uploading
      /\ Len(history) >= 1

\* C23: nothing is sent twice of its own accord.  One relay invocation sends
\* at most one submission or generation request and at most one download, and
\* nothing after it has answered; the view sends one relay request for a
\* click on generate that passes the guards, none otherwise, and a request
\* only in the step of a click.
C23_NoAutomaticRetry ==
    /\ [](calls.submit <= 1 /\ calls.generate <= 1 /\ calls.download <= 1)
    /\ [][pc = "done" => calls' = calls]_vars
    /\ [](sent.generate <= clicks.generate /\ sent.upload <= clicks.upload)
    /\ [][/\ sent'.generate # sent.generate =>
               /\ sent'.generate = sent.generate + 1
               /\ clicks'.generate = clicks.generate + 1
          /\ sent'.upload # sent.upload =>
               /\ sent'.upload = sent.upload + 1
               /\ clicks'.upload = clicks.upload + 1]_vars

C23_Witness ==
    /\ clicks.generate = 1 /\ sent.generate = 1
    /\ Len(flights) = 1 /\ flights[1].kind = "generate" /\ flights[1].pc = "failed"
    /\ view.error = <<"Generation failed">>
    /\ ~view.loading
    /\ rendered = Closure

\* C25: a current result that has a cloudUrl has the URL of an upload that
\* was started for that result.
C25_CloudUrlIsOwn ==
    (view.currentResult # NoResult /\ view.currentResult.cloudUrl # NoUrl) =>
        view.currentResult.cloudUrl = UrlOf(view.currentResult.historyId)

UploadsInFlight ==
    {i \in 1..Len(flights) : flights[i].kind = "upload" /\ flights[i].pc = "awaitFetch"}

\* C26: at most one upload request of the view is in flight at any time.
C26_OneUploadInFlight == Cardinality(UploadsInFlight) <= 1

===========================================================================
